---- MODULE Spec2Model ----
(***************************************************************************)
(* Model of the rct runtime core: the Connection framer (length-prefixed   *)
(* typed messages over a byte stream) and the Process supervisor (SIGCHLD  *)
(* driven reaping of forked children by ProcessThread).                    *)
(***************************************************************************)
EXTENDS Integers, Sequences, FiniteSets, TLC

\* ------------------------------------------------------------------------
\* Bounds of the model
\* ------------------------------------------------------------------------
MaxFrames == 2

\* Byte values that travel on the stream (ids, body bytes, header bytes).
ByteVals == {0, 1, 2}

\* Message bodies handed to sendData.
Bodies == {<<>>, <<2, 1>>}

\* Payloads a remote peer may put behind a length header (any bytes at all,
\* the empty payload included).
RawPayloads == {<<>>} \cup [1..1 -> ByteVals] \cup [1..2 -> ByteVals]

\* ------------------------------------------------------------------------
\* Collaborators of Connection that live outside the source tree
\* ------------------------------------------------------------------------
ResponseId == 1
FinishId == 2
RegisteredIds == {ResponseId, FinishId}

NoMessage == [id |-> -1, body |-> <<>>]

\* Serializer << uint32 / Deserializer >> uint32: four bytes, least
\* significant first.
U32LE(n) ==
    << n % 256, (n \div 256) % 256, (n \div 65536) % 256, (n \div 16777216) % 256 >>

FromU32LE(b) ==
    b[1] + 256 * b[2] + 65536 * b[3] + 16777216 * b[4]

\* Messages::create(data, size): no message for an empty payload or an id
\* that has no registered factory; otherwise the message with that id and
\* the rest of the payload as its body.
MessagesCreate(data) ==
    IF Len(data) < 1 THEN NoMessage
    ELSE IF data[1] \notin RegisteredIds THEN NoMessage
    ELSE [id |-> data[1], body |-> Tail(data)]

Min(a, b) == IF a < b THEN a ELSE b

\* ------------------------------------------------------------------------
\* State
\* ------------------------------------------------------------------------
VARIABLES
    \* the byte stream between the sending and the receiving Connection
    stream,          \* every byte accepted by the sending socket, in order
    flushed,         \* how many of them the socket has written (acknowledged)
    received,        \* how many of them the receiving socket has read
    frames,          \* history: the frames put on the stream
    \* sending Connection
    sockState,       \* "unconnected", "connected" or "closed"
    mPendingWrite,
    sendFinished,    \* history: one record per mSendFinished emission
    firedForLast,    \* history: "none" before any send passed the isConnected
                     \* test, then whether mSendFinished fired since the last one
    lastSend,        \* history: what the last sendData call did
    \* receiving Connection
    mBuffers,
    mPendingRead,
    delivered,       \* history: mFinished / newMessage emissions
    consumed,        \* history: how each consumed inbound byte was used
    \* kernel side of the children
    child,           \* pid -> "none", "running" or "zombie" (exited, not waited for)
    wstatus,         \* pid -> the wait status waitpid will report
    how,             \* history: pid -> how the child ended
    sigPending,      \* a SIGCHLD is pending (standard signals do not queue)
    \* ProcessThread
    sProcessPipe,    \* the bytes in the signal pipe
    sProcesses,      \* the registry: pid -> Process, NoProcess where absent
    sProcessMutex,   \* "free" or "supervisor"
    sup,             \* ProcessThread::run: where it stands and its locals
    \* the Process objects
    mPid,
    mReturn,
    startPc,         \* Process -> where its startInternal call stands
    finishLog,       \* history: the finish(code) calls
    forks,           \* history: number of successful forks
    \* one Process object seen from its pipes: its members, the kernel side
    \* of its descriptors and of its child, and the history of what it did
    io,
    \* Process::stop, ProcessThread::shutdown and the signal handler's thread
    stopping,        \* Process -> the mPid its stop() call has tested, NoPid outside
    lastKill,        \* history: the last ::kill of Process::stop and what it hit
    sProcessThread,  \* "thread" once installProcessHandler ran, "null" after shutdown
    shutdownPc,      \* where ProcessThread::shutdown stands
    errno,           \* errno of the thread that SIGCHLD interrupts
    inHandler,       \* the thread processSignalHandler is running on, or "none"
    \* EventLoop: the posted events
    events,          \* the queue of posted events
    draining,        \* the events the loop thread took for this iteration
    posted,          \* thread -> number of events it has posted
    enqueued,        \* history: every posted event, in the order of the appends
    executed         \* history: every exec() of an event and its thread

connVars == << stream, flushed, received, frames, sockState, mPendingWrite,
               sendFinished, firedForLast, lastSend, mBuffers, mPendingRead,
               delivered, consumed >>

mainVars == << stopping, lastKill, sProcessThread, shutdownPc, errno, inHandler >>

procVars == << child, wstatus, how, sigPending, sProcessPipe, sProcesses,
               sProcessMutex, sup, mPid, mReturn, startPc, finishLog, forks,
               mainVars >>

loopVars == << events, draining, posted, enqueued, executed >>

ioVars == << io, loopVars >>

vars == << connVars, procVars, ioVars >>

NoSend == [called |-> FALSE, wasConnected |-> FALSE, ret |-> FALSE,
           queued |-> 0, raised |-> 0]

InitConn ==
    /\ stream = <<>>
    /\ flushed = 0
    /\ received = 0
    /\ frames = <<>>
    /\ sockState = "unconnected"
    /\ mPendingWrite = 0
    /\ sendFinished = <<>>
    /\ firedForLast = "none"
    /\ lastSend = NoSend
    /\ mBuffers = <<>>
    /\ mPendingRead = 0
    /\ delivered = <<>>
    /\ consumed = <<>>

\* ------------------------------------------------------------------------
\* Connection: send path
\* ------------------------------------------------------------------------

\* Connection::onDataWritten on the sender record s.
onDataWritten(s, bytes) ==
    LET pw == s.mPendingWrite - bytes
    IN  IF pw = 0
        THEN [s EXCEPT !.mPendingWrite = pw,
                       !.sendFinished = Append(@, [unacked |-> Len(s.stream) - s.flushed,
                                                   bodyPending |-> s.bodyPending]),
                       !.firedForLast = "yes"]
        ELSE [s EXCEPT !.mPendingWrite = pw]

\* SocketClient::write(bytes): either fails (nothing is accepted, the socket
\* closes) or accepts all the bytes; when the descriptor is writable it
\* writes everything it holds at once and reports it through bytesWritten
\* before it returns.
SocketWrite(s, bytes, ok, sync) ==
    IF ~ok
    THEN [s EXCEPT !.sockState = "closed", !.wrote = FALSE]
    ELSE LET s1 == [s EXCEPT !.stream = @ \o bytes, !.wrote = TRUE]
             n  == Len(s1.stream) - s1.flushed
         IN  IF sync
             THEN onDataWritten([s1 EXCEPT !.flushed = Len(s1.stream)], n)
             ELSE s1

\* Connection::sendData, with mPendingWrite raised write by write.
sendDataPerWrite(s, id, message, okH, syncH, okD, syncD) ==
    IF s.sockState # "connected"
    THEN [s EXCEPT !.ret = FALSE]
    ELSE LET data   == <<id % 256>> \o message
             header == U32LE(Len(data))
             s1 == [s EXCEPT !.mPendingWrite = @ + Len(header),
                             !.bodyPending = TRUE,
                             !.firedForLast = "no"]
             s2 == SocketWrite(s1, header, okH, syncH)
         IN  IF ~s2.wrote
             THEN [s2 EXCEPT !.ret = FALSE, !.bodyPending = FALSE]
             ELSE LET s3 == SocketWrite([s2 EXCEPT !.bodyPending = FALSE,
                                                   !.mPendingWrite = @ + Len(data),
                                                   !.firedForLast = "no"],
                                        data, okD, syncD)
                  IN  [s3 EXCEPT !.ret = s3.wrote]

\* Connection::sendData, without the isConnected test.
sendDataNoCheck(s, id, message, okH, syncH, okD, syncD) ==
    LET data   == <<id % 256>> \o message
        header == U32LE(Len(data))
        s1 == [s EXCEPT !.mPendingWrite = @ + Len(header) + Len(data),
                        !.bodyPending = TRUE,
                        !.firedForLast = "no"]
        s2 == SocketWrite(s1, header, TRUE, syncH)
        s3 == SocketWrite([s2 EXCEPT !.bodyPending = FALSE], data, TRUE, syncD)
    IN  [s3 EXCEPT !.ret = s3.wrote]

\* Connection::sendData, with the header carrying message.size().
sendDataBodyLength(s, id, message, okH, syncH, okD, syncD) ==
    IF s.sockState # "connected"
    THEN [s EXCEPT !.ret = FALSE]
    ELSE LET data   == <<id % 256>> \o message
             header == U32LE(Len(message))
             s1 == [s EXCEPT !.mPendingWrite = @ + Len(header) + Len(data),
                             !.bodyPending = TRUE,
                             !.firedForLast = "no"]
             s2 == SocketWrite(s1, header, okH, syncH)
         IN  IF ~s2.wrote
             THEN [s2 EXCEPT !.ret = FALSE, !.bodyPending = FALSE]
             ELSE LET s3 == SocketWrite([s2 EXCEPT !.bodyPending = FALSE],
                                        data, okD, syncD)
                  IN  [s3 EXCEPT !.ret = s3.wrote]

\* Connection::sendData(id, message).  okH/okD: whether the socket accepts
\* the header / the data; syncH/syncD: whether it writes them out at once.
sendData(s, id, message, okH, syncH, okD, syncD) ==
    IF s.sockState # "connected"
    THEN [s EXCEPT !.ret = FALSE]
    ELSE LET data   == <<id % 256>> \o message
             header == U32LE(Len(data))
             s1 == [s EXCEPT !.mPendingWrite = @ + Len(header) + Len(data),
                             !.bodyPending = TRUE,
                             !.firedForLast = "no"]
             s2 == SocketWrite(s1, header, okH, syncH)
         IN  IF ~s2.wrote
             THEN [s2 EXCEPT !.ret = FALSE, !.bodyPending = FALSE]
             ELSE LET s3 == SocketWrite([s2 EXCEPT !.bodyPending = FALSE],
                                        data, okD, syncD)
                  IN  [s3 EXCEPT !.ret = s3.wrote]

Sender ==
    [sockState |-> sockState, mPendingWrite |-> mPendingWrite, stream |-> stream,
     flushed |-> flushed, sendFinished |-> sendFinished,
     firedForLast |-> firedForLast, bodyPending |-> FALSE, wrote |-> FALSE,
     ret |-> FALSE]

\* SocketClient::connect succeeds (mSocketClient->connect in connectToServer).
Connect ==
    /\ sockState = "unconnected"
    /\ sockState' = "connected"
    /\ UNCHANGED << ioVars, procVars, stream, flushed, received, frames, mPendingWrite, sendFinished,
                    firedForLast, lastSend, mBuffers, mPendingRead, delivered,
                    consumed >>

\* The peer hangs up: the socket is no longer connected.
Disconnect ==
    /\ sockState = "connected"
    /\ sockState' = "closed"
    /\ UNCHANGED << ioVars, procVars, stream, flushed, received, frames, mPendingWrite, sendFinished,
                    firedForLast, lastSend, mBuffers, mPendingRead, delivered,
                    consumed >>

\* One call of Connection::sendData(id, message).
SendData ==
    \E id \in ByteVals, message \in Bodies, okH, syncH, okD, syncD \in BOOLEAN :
        LET s == sendData(Sender, id, message, okH, syncH, okD, syncD)
            q == Len(s.stream) - Len(stream)
        IN  /\ Len(frames) < MaxFrames
            /\ stream' = s.stream
            /\ flushed' = s.flushed
            /\ sockState' = s.sockState
            /\ mPendingWrite' = s.mPendingWrite
            /\ sendFinished' = s.sendFinished
            /\ firedForLast' = s.firedForLast
            /\ lastSend' = [called |-> TRUE,
                            wasConnected |-> (sockState = "connected"),
                            ret |-> s.ret,
                            queued |-> q,
                            raised |-> (s.mPendingWrite - mPendingWrite)
                                       + (s.flushed - flushed)]
            /\ frames' = IF q = 0 THEN frames
                         ELSE Append(frames, [payload |-> <<id>> \o message,
                                              complete |-> s.ret,
                                              sent |-> TRUE])
            /\ UNCHANGED << ioVars, procVars, received, mBuffers, mPendingRead, delivered, consumed >>

\* The socket writes out some of the bytes it holds and reports them:
\* bytesWritten -> Connection::onDataWritten(bytes).
DataWritten ==
    \E bytes \in 1..(Len(stream) - flushed) :
        LET s == onDataWritten([Sender EXCEPT !.flushed = flushed + bytes], bytes)
        IN  /\ flushed' = s.flushed
            /\ mPendingWrite' = s.mPendingWrite
            /\ sendFinished' = s.sendFinished
            /\ firedForLast' = s.firedForLast
            /\ UNCHANGED << ioVars, procVars, stream, received, frames, sockState, lastSend, mBuffers,
                            mPendingRead, delivered, consumed >>

\* A remote peer that does not go through sendData writes one frame: a
\* length header and that many payload bytes.
PeerWrite ==
    \E payload \in RawPayloads :
        /\ Len(frames) < MaxFrames
        /\ stream' = stream \o U32LE(Len(payload)) \o payload
        /\ flushed' = Len(stream')
        /\ frames' = Append(frames, [payload |-> payload, complete |-> TRUE,
                                     sent |-> FALSE])
        /\ UNCHANGED << ioVars, procVars, received, sockState, mPendingWrite, sendFinished,
                        firedForLast, lastSend, mBuffers, mPendingRead, delivered,
                        consumed >>

\* ------------------------------------------------------------------------
\* Connection: receive path
\* ------------------------------------------------------------------------
RECURSIVE bufferSize(_)
bufferSize(buffers) ==
    IF buffers = <<>> THEN 0 ELSE Len(Head(buffers)) + bufferSize(Tail(buffers))

RECURSIVE bufferReadLoop(_, _, _)
bufferReadLoop(buffers, rem, out) ==
    IF buffers = <<>>
    THEN [data |-> out, buffers |-> buffers]
    ELSE LET front == Head(buffers)
             cur   == Min(Len(front), rem)
             out2  == out \o SubSeq(front, 1, cur)
             rem2  == rem - cur
             rest  == IF cur = Len(front)
                      THEN Tail(buffers)
                      ELSE << SubSeq(front, cur + 1, Len(front)) >> \o Tail(buffers)
         IN  IF rem2 = 0
             THEN [data |-> out2, buffers |-> rest]
             ELSE bufferReadLoop(rest, rem2, out2)

\* bufferRead that erases a partly read front buffer instead of shrinking it.
RECURSIVE bufferReadEraseLoop(_, _, _)
bufferReadEraseLoop(buffers, rem, out) ==
    IF buffers = <<>>
    THEN [data |-> out, buffers |-> buffers]
    ELSE LET front == Head(buffers)
             cur   == Min(Len(front), rem)
             out2  == out \o SubSeq(front, 1, cur)
             rem2  == rem - cur
         IN  IF rem2 = 0
             THEN [data |-> out2, buffers |-> Tail(buffers)]
             ELSE bufferReadEraseLoop(Tail(buffers), rem2, out2)

bufferReadErase(buffers, size) ==
    IF size = 0
    THEN [data |-> <<>>, buffers |-> buffers]
    ELSE bufferReadEraseLoop(buffers, size, <<>>)

\* bufferRead(buffers, out, size): the bytes read and the buffers left.
bufferRead(buffers, size) ==
    IF size = 0
    THEN [data |-> <<>>, buffers |-> buffers]
    ELSE bufferReadLoop(buffers, size, <<>>)

Roles(role, n) == [i \in 1..n |-> role]

\* Delivery that never emits mFinished.
DeliveryNoFinish(message, at) ==
    [kind |-> "NewMessage", msg |-> message, at |-> at]

\* One delivery of Connection: mFinished(this) carries no message,
\* newMessage()(message, this) carries the message.
Delivery(message, at) ==
    IF message.id = FinishId
    THEN [kind |-> "Finished", msg |-> NoMessage, at |-> at]
    ELSE [kind |-> "NewMessage", msg |-> message, at |-> at]

\* Dispatch without the test for a null message.
DispatchNoNullCheck(out, payload, at) ==
    Append(out, Delivery(MessagesCreate(payload), at))

\* Messages::create on the payload and, if it made a message, its emission.
Dispatch(out, payload, at) ==
    LET message == MessagesCreate(payload)
    IN  IF message # NoMessage THEN Append(out, Delivery(message, at)) ELSE out

\* The loop of Connection::onDataAvailable on the receiver record
\* r = [sock, mBuffers, mPendingRead, delivered, consumed].
RECURSIVE onDataAvailable(_)
onDataAvailable(r) ==
    LET bufs == IF r.sock # <<>> THEN Append(r.mBuffers, r.sock) ELSE r.mBuffers
        r0   == [r EXCEPT !.sock = <<>>, !.mBuffers = bufs]
        available == bufferSize(bufs)
    IN  IF available = 0 THEN r0
        ELSE IF r.mPendingRead = 0 /\ available < 4 THEN r0
        ELSE LET hdr == bufferRead(bufs, 4)
                 r1  == IF r.mPendingRead = 0
                        THEN [r0 EXCEPT !.mBuffers = hdr.buffers,
                                        !.mPendingRead = FromU32LE(hdr.data),
                                        !.consumed = @ \o Roles("H", Len(hdr.data))]
                        ELSE r0
                 avail1 == IF r.mPendingRead = 0 THEN available - 4 ELSE available
             IN  IF avail1 < r1.mPendingRead THEN r1
                 ELSE LET body == bufferRead(r1.mBuffers, r1.mPendingRead)
                          used == r1.consumed \o Roles("B", Len(body.data))
                      IN  onDataAvailable(
                              [r1 EXCEPT !.mBuffers = body.buffers,
                                         !.mPendingRead = 0,
                                         !.consumed = used,
                                         !.delivered = Dispatch(@, body.data, Len(used))])

\* The receiving socket reads the next k bytes of the stream and emits
\* readyRead -> Connection::onDataAvailable.
Receive ==
    \E k \in 1..(flushed - received) :
        LET r == onDataAvailable([sock |-> SubSeq(stream, received + 1, received + k),
                                  mBuffers |-> mBuffers,
                                  mPendingRead |-> mPendingRead,
                                  delivered |-> delivered,
                                  consumed |-> consumed])
        IN  /\ received' = received + k
            /\ mBuffers' = r.mBuffers
            /\ mPendingRead' = r.mPendingRead
            /\ delivered' = r.delivered
            /\ consumed' = r.consumed
            /\ UNCHANGED << ioVars, procVars, stream, flushed, frames, sockState, mPendingWrite,
                            sendFinished, firedForLast, lastSend >>

\* ------------------------------------------------------------------------
\* Process supervisor: bounds and domains
\* ------------------------------------------------------------------------
MaxForks == 3
PipeCap == 1

Pids == {1, 2}
Procs == {"P1", "P2"}
ExitCodes == {0, 3, 255}
KillSignals == {15}

NoProcess == "none"
NoPid == -1
End == 0

\* <sys/wait.h>: the status word of a normal exit carries the code in bits
\* 8..15 and zero in the low seven bits; that of a death by signal carries
\* the signal number in the low seven bits.
ExitStatusWord(n) == (n % 256) * 256
SignalStatusWord(sig) == sig % 128
WIFEXITED(status) == status % 128 = 0
WEXITSTATUS(status) == (status \div 256) % 256

InitProc ==
    /\ child = [pid \in Pids |-> "none"]
    /\ wstatus = [pid \in Pids |-> 0]
    /\ how = [pid \in Pids |-> [kind |-> "none", n |-> 0]]
    /\ sigPending = FALSE
    /\ sProcessPipe = <<>>
    /\ sProcesses = [pid \in Pids |-> NoProcess]
    /\ sProcessMutex = "free"
    /\ sup = [pc |-> "read", proc |-> End, process |-> NoProcess, ret |-> 0,
              how |-> [kind |-> "none", n |-> 0],
              \* history of the walk under way: the keys it began with, those
              \* it has called waitpid on, those it has erased
              atStart |-> {}, walked |-> {}, erased |-> {}]
    /\ mPid = [p \in Procs |-> NoPid]
    /\ mReturn = [p \in Procs |-> 0]
    /\ startPc = [p \in Procs |-> "idle"]
    /\ finishLog = <<>>
    /\ forks = 0
    /\ stopping = [p \in Procs |-> NoPid]
    /\ lastKill = [pid |-> NoPid, target |-> "none"]
    /\ sProcessThread = "thread"
    /\ shutdownPc = "idle"
    /\ errno = 0
    /\ inHandler = "none"

\* ------------------------------------------------------------------------
\* Process::startInternal, as far as the registry is concerned
\* ------------------------------------------------------------------------

\* mPid = ::fork() returns a pid in the parent.  The kernel hands out any
\* pid that no unreaped child holds.
Fork(p) ==
    /\ startPc[p] = "idle"
    /\ mPid[p] = NoPid
    /\ forks < MaxForks
    /\ \E pid \in Pids :
           /\ child[pid] = "none"
           /\ child' = [child EXCEPT ![pid] = "running"]
           /\ mPid' = [mPid EXCEPT ![p] = pid]
    /\ startPc' = [startPc EXCEPT ![p] = "forked"]
    /\ forks' = forks + 1
    /\ UNCHANGED << ioVars, connVars, mainVars, wstatus, how, sigPending, sProcessPipe, sProcesses,
                    sProcessMutex, sup, mReturn, finishLog >>

\* ProcessThread::addPid(mPid, this), called by the parent after fork.
AddPid(p) ==
    /\ startPc[p] = "forked"
    /\ sProcessMutex = "free"
    /\ sProcesses' = [sProcesses EXCEPT ![mPid[p]] = p]
    /\ startPc' = [startPc EXCEPT ![p] = "idle"]
    /\ UNCHANGED << ioVars, connVars, mainVars, child, wstatus, how, sigPending, sProcessPipe,
                    sProcessMutex, sup, mPid, mReturn, finishLog, forks >>

\* ------------------------------------------------------------------------
\* The children and the kernel
\* ------------------------------------------------------------------------

\* A running child calls exit(n): it becomes a zombie and SIGCHLD is raised.
ChildExit(pid) ==
    /\ child[pid] = "running"
    /\ \E n \in ExitCodes :
           /\ wstatus' = [wstatus EXCEPT ![pid] = ExitStatusWord(n)]
           /\ how' = [how EXCEPT ![pid] = [kind |-> "exit", n |-> n]]
    /\ child' = [child EXCEPT ![pid] = "zombie"]
    /\ sigPending' = TRUE
    /\ UNCHANGED << ioVars, connVars, mainVars, sProcessPipe, sProcesses, sProcessMutex, sup, mPid,
                    mReturn, startPc, finishLog, forks >>

\* A running child is killed by a signal.
ChildKilled(pid) ==
    /\ child[pid] = "running"
    /\ \E sig \in KillSignals :
           /\ wstatus' = [wstatus EXCEPT ![pid] = SignalStatusWord(sig)]
           /\ how' = [how EXCEPT ![pid] = [kind |-> "signal", n |-> sig]]
    /\ child' = [child EXCEPT ![pid] = "zombie"]
    /\ sigPending' = TRUE
    /\ UNCHANGED << ioVars, connVars, mainVars, sProcessPipe, sProcesses, sProcessMutex, sup, mPid,
                    mReturn, startPc, finishLog, forks >>

\* ProcessThread::wakeup(Child): one 'c' is written to the signal pipe; the
\* write is retried for as long as the pipe is full.
wakeupChild(pipe) == Append(pipe, "c")

\* The pending SIGCHLD is delivered: processSignalHandler runs wakeup(Child).
ProcessSignalHandler ==
    /\ sigPending
    /\ Len(sProcessPipe) < PipeCap
    /\ sigPending' = FALSE
    /\ sProcessPipe' = wakeupChild(sProcessPipe)
    /\ UNCHANGED << ioVars, connVars, mainVars, child, wstatus, how, sProcesses, sProcessMutex, sup,
                    mPid, mReturn, startPc, finishLog, forks >>

\* ------------------------------------------------------------------------
\* ProcessThread::run
\* ------------------------------------------------------------------------
Keys(registry) == {pid \in Pids : registry[pid] # NoProcess}

\* The smallest element of a non-empty set of pids.
Lowest(S) == CHOOSE x \in S : \A y \in S : x <= y

\* sProcesses.begin()
Begin(registry) ==
    IF Keys(registry) = {} THEN End ELSE Lowest(Keys(registry))

\* A ++proc that lands on end().
SuccessorIsEnd(registry, pid) == End

\* ++proc on a std::map iterator
Successor(registry, pid) ==
    LET later == {k \in Keys(registry) : k > pid}
    IN  IF later = {} THEN End ELSE Lowest(later)

\* Lines 106-109 without the WIFEXITED test.
ReturnCodeNoTest(status) == WEXITSTATUS(status)

\* Lines 106-109: the code handed to finish.
ReturnCode(status) ==
    IF WIFEXITED(status) THEN WEXITSTATUS(status) ELSE -1

\* A read loop that has no exit: every byte starts a walk.
SupReadIgnoresStop ==
    /\ sup.pc = "read"
    /\ sProcessPipe # <<>>
    /\ sProcessPipe' = Tail(sProcessPipe)
    /\ sProcessMutex = "free"
    /\ sProcessMutex' = "supervisor"
    /\ sup' = [sup EXCEPT !.pc = "walk", !.proc = Begin(sProcesses),
                          !.atStart = Keys(sProcesses)]
    /\ UNCHANGED << ioVars, connVars, mainVars, child, wstatus, how, sigPending, sProcesses, mPid,
                    mReturn, startPc, finishLog, forks >>

\* read(sProcessPipe[0]) returns one byte; on 'c' the registry is locked
\* and the walk starts at begin().
SupRead ==
    /\ sup.pc = "read"
    /\ sProcessPipe # <<>>
    /\ sProcessPipe' = Tail(sProcessPipe)
    /\ IF Head(sProcessPipe) = "s"
       THEN /\ sup' = [sup EXCEPT !.pc = "done"]
            /\ UNCHANGED sProcessMutex
       ELSE /\ sProcessMutex = "free"
            /\ sProcessMutex' = "supervisor"
            /\ sup' = [sup EXCEPT !.pc = "walk", !.proc = Begin(sProcesses),
                                  !.atStart = Keys(sProcesses)]
    /\ UNCHANGED << ioVars, connVars, mainVars, child, wstatus, how, sigPending, sProcesses, mPid,
                    mReturn, startPc, finishLog, forks >>

\* A turn of the while loop that calls finish and leaves the entry in the
\* registry.
SupWaitpidKeepsEntry ==
    /\ sup.pc = "walk"
    /\ sup.proc # End
    /\ LET pid == sup.proc
       IN  IF child[pid] = "zombie"
           THEN \* waitpid returns pid: the child is reaped, the entry erased,
                \* the registry unlocked for the call of finish
                /\ child' = [child EXCEPT ![pid] = "none"]
                /\ wstatus' = [wstatus EXCEPT ![pid] = 0]
                /\ how' = [how EXCEPT ![pid] = [kind |-> "none", n |-> 0]]
                /\ UNCHANGED sProcesses
                /\ sProcessMutex' = "free"
                /\ sup' = [pc |-> "finish",
                           proc |-> Successor(sProcesses, pid),
                           process |-> sProcesses[pid],
                           ret |-> ReturnCode(wstatus[pid]),
                           how |-> how[pid],
                           atStart |-> sup.atStart,
                           walked |-> sup.walked \cup {pid},
                           erased |-> sup.erased \cup {pid}]
           ELSE \* waitpid returns 0 (still running) or -1 (no such child)
                /\ sup' = [sup EXCEPT !.proc = Successor(sProcesses, pid),
                                      !.walked = @ \cup {pid}]
                /\ UNCHANGED << child, wstatus, how, sProcesses, sProcessMutex >>
    /\ UNCHANGED << ioVars, connVars, mainVars, sigPending, sProcessPipe, mPid, mReturn, startPc,
                    finishLog, forks >>

\* One turn of the while loop: waitpid(proc->first, &ret, WNOHANG).
SupWaitpid ==
    /\ sup.pc = "walk"
    /\ sup.proc # End
    /\ LET pid == sup.proc
       IN  IF child[pid] = "zombie"
           THEN \* waitpid returns pid: the child is reaped, the entry erased,
                \* the registry unlocked for the call of finish
                /\ child' = [child EXCEPT ![pid] = "none"]
                /\ wstatus' = [wstatus EXCEPT ![pid] = 0]
                /\ how' = [how EXCEPT ![pid] = [kind |-> "none", n |-> 0]]
                /\ sProcesses' = [sProcesses EXCEPT ![pid] = NoProcess]
                /\ sProcessMutex' = "free"
                /\ sup' = [pc |-> "finish",
                           proc |-> Successor(sProcesses, pid),
                           process |-> sProcesses[pid],
                           ret |-> ReturnCode(wstatus[pid]),
                           how |-> how[pid],
                           atStart |-> sup.atStart,
                           walked |-> sup.walked \cup {pid},
                           erased |-> sup.erased \cup {pid}]
           ELSE \* waitpid returns 0 (still running) or -1 (no such child)
                /\ sup' = [sup EXCEPT !.proc = Successor(sProcesses, pid),
                                      !.walked = @ \cup {pid}]
                /\ UNCHANGED << child, wstatus, how, sProcesses, sProcessMutex >>
    /\ UNCHANGED << ioVars, connVars, mainVars, sigPending, sProcessPipe, mPid, mReturn, startPc,
                    finishLog, forks >>

\* proc == end: the walk is over and the lock goes out of scope.
SupWalkEnd ==
    /\ sup.pc = "walk"
    /\ sup.proc = End
    /\ sProcessMutex' = "free"
    /\ sup' = [sup EXCEPT !.pc = "read", !.atStart = {}, !.walked = {}, !.erased = {}]
    /\ UNCHANGED << ioVars, connVars, mainVars, child, wstatus, how, sigPending, sProcessPipe,
                    sProcesses, mPid, mReturn, startPc, finishLog, forks >>

\* process->finish(ret), then lock.lock() and on with the walk.
SupFinish ==
    /\ sup.pc = "finish"
    /\ sProcessMutex = "free"
    /\ mPid' = [mPid EXCEPT ![sup.process] = NoPid]
    /\ mReturn' = [mReturn EXCEPT ![sup.process] = sup.ret]
    /\ finishLog' = Append(finishLog, [process |-> sup.process, code |-> sup.ret,
                                       how |-> sup.how])
    /\ sProcessMutex' = "supervisor"
    /\ sup' = [sup EXCEPT !.pc = "walk", !.process = NoProcess, !.ret = 0,
                          !.how = [kind |-> "none", n |-> 0]]
    /\ UNCHANGED << ioVars, connVars, mainVars, child, wstatus, how, sigPending, sProcessPipe,
                    sProcesses, startPc, forks >>

\* ------------------------------------------------------------------------
\* One Process and its pipes: bounds
\* ------------------------------------------------------------------------
\* handleOutput's BufSize (1024) and MaxSize (16 MiB), scaled down so that
\* the cap is reached: the code only compares sums of sizes with MaxSize.
BufSize == 2
MaxSize == 4

StdinCap == 1        \* bytes the stdin pipe holds before write() would block
MaxStarts == 2       \* start()/exec() calls on the Process
MaxWrites == 3       \* write() calls on the Process
MaxOutput == 5       \* bytes the children write to stdout and stderr together
MaxClock == 3        \* milliseconds the clock runs for

\* The timeout argument of exec, in milliseconds: none, or a deadline.
Timeouts == {0, 2}

\* Arguments of Process::write.
StdinData == {<<>>, <<1>>, <<2, 3>>}

Streams == {"out", "err"}

\* What a write() with a negative count may do: fail, or copy whatever lies
\* behind the buffer.
UBOutcomes == {"fault", "garbage"}
Garbage == 0 - 7

\* Descriptor numbers: the value of a closed member, and one number per
\* pipe end the parent keeps.
NoFd == 0 - 1
StdInFd == 11
StdOutFd == 12
StdErrFd == 13
SyncReadFd == 14
SyncWriteFd == 15
ChildPid == 1

\* ------------------------------------------------------------------------
\* One Process and its pipes: state after Process::Process()
\* ------------------------------------------------------------------------
InitRecord ==
         [ \* members of Process
           mPid |-> NoPid, mReturn |-> 0, mMode |-> "Sync",
           mStdInBuffer |-> <<>>, mStdInIndex |-> 0,
           mStdOutBuffer |-> <<>>, mStdOutIndex |-> 0,
           mStdErrBuffer |-> <<>>, mStdErrIndex |-> 0,
           mStdIn1 |-> NoFd, mStdOut0 |-> NoFd, mStdErr0 |-> NoFd,
           mSync0 |-> NoFd, mSync1 |-> NoFd,
           mMutex |-> "free",
           mErrorString |-> "",
           \* kernel and event loop
           childState |-> "none",   \* "none", "running" or "zombie"
           wstatus |-> 0,           \* the wait status of a zombie
           openFds |-> {},          \* descriptors of the parent that are open
           stdinPipe |-> <<>>,      \* every byte written to the stdin pipe
           stdinRoom |-> 0,         \* free space in the stdin pipe
           outPipe |-> <<>>,        \* bytes waiting in the stdout pipe
           errPipe |-> <<>>,
           syncPipe |-> <<>>,
           registered |-> {},       \* descriptors registered with the loop
           \* history
           accepted |-> <<>>,       \* bytes queued by write() since the queue
                                    \* was last cleared
           emitted |-> {},          \* signal emissions and their thread
           produced |-> 0,          \* bytes the children have written
           taken |-> [s \in Streams |-> <<>>],   \* bytes appended to a buffer
           lost |-> [s \in Streams |-> <<>>],    \* unread bytes dropped
           drops |-> <<>>,          \* unread and chunk sizes at each drop
           used |-> [s \in Streams |-> 0],       \* bytes the user consumed
           lastAppend |-> "none",   \* "plain", "compact" or "drop"
           starts |-> 0, writes |-> 0,
           lastWrite |-> "none",    \* what ended the last handleInput
           \* the loop thread inside handleOutput
           loopPc |-> "idle", loopStream |-> "out", loopBuf |-> <<>>,
           loopTotal |-> 0,
           \* the supervisor thread inside finish
           finPc |-> "idle",        \* "locked" under mMutex, "emit" after it
           \* history: the last findCommand call and what it returned
           lookup |-> [command |-> <<>>, path |-> [set |-> FALSE, dirs |-> <<>>],
                       cmd |-> <<>>,
                       files |-> [exists |-> {}, exec |-> {}]],
           \* the thread inside a synchronous exec
           execPc |-> "idle", execResult |-> "none", timeout |-> 0,
           started |-> 0, selecttime |-> 0, selectEntered |-> 0,
           asserted |-> "none",     \* "held" or "failed" at the last doorbell
           clock |-> 0 ]

InitIO == io = InitRecord

\* ------------------------------------------------------------------------
\* Process: the stdin write path
\* ------------------------------------------------------------------------

\* ::write(fd, bytes, want) on the non-blocking stdin pipe: -1 when the
\* descriptor is closed, the reader is gone or the pipe is full; 0 for a
\* count of 0; otherwise as many bytes as fit.  A negative want is a huge
\* size_t count: the call fails or copies memory that is not the message.
sysWrite(w, bytes, want, ub) ==
    IF w.mStdIn1 \notin w.openFds \/ w.childState # "running"
    THEN [n |-> 0 - 1, w |-> w]
    ELSE IF want = 0 THEN [n |-> 0, w |-> w]
    ELSE IF w.stdinRoom = 0 THEN [n |-> 0 - 1, w |-> w]
    ELSE IF want < 0
    THEN IF ub = "fault" THEN [n |-> 0 - 1, w |-> w]
         ELSE [n |-> w.stdinRoom,
               w |-> [w EXCEPT !.stdinPipe = @ \o [i \in 1..w.stdinRoom |-> Garbage],
                               !.stdinRoom = 0]]
    ELSE LET n == Min(want, w.stdinRoom)
         IN [n |-> n,
             w |-> [w EXCEPT !.stdinPipe = @ \o SubSeq(bytes, 1, n),
                             !.stdinRoom = @ - n]]

\* String::mid(index): the bytes from index on, nothing when index is at or
\* past the end.
Mid(str, index) == SubSeq(str, index + 1, Len(str))

\* The for (;;) of Process::handleInput.
RECURSIVE handleInputLoop(_, _)
handleInputLoop(w, ub) ==
    IF w.mStdInBuffer = <<>> THEN [w EXCEPT !.lastWrite = "empty"]
    ELSE LET front == Head(w.mStdInBuffer)
             want == Len(front) - w.mStdInIndex
             res == sysWrite(w, Mid(front, w.mStdInIndex), want, ub)
         IN IF res.n = 0 - 1
            THEN [res.w EXCEPT !.registered = @ \cup {w.mStdIn1},
                               !.lastWrite = "blocked"]
            ELSE IF res.n = want
            THEN handleInputLoop([res.w EXCEPT !.mStdInBuffer = Tail(@),
                                               !.mStdInIndex = 0], ub)
            ELSE handleInputLoop([res.w EXCEPT !.mStdInIndex = @ + res.n], ub)

\* A handleInput that registers write interest as soon as a write is short.
handleInputNoRetry(w, ub) ==
    LET u == [w EXCEPT !.registered = @ \ {w.mStdIn1}]
    IN IF u.mStdInBuffer = <<>> THEN [u EXCEPT !.lastWrite = "empty"]
       ELSE LET front == Head(u.mStdInBuffer)
                want == Len(front) - u.mStdInIndex
                res == sysWrite(u, Mid(front, u.mStdInIndex), want, ub)
            IN IF res.n = 0 - 1
               THEN [res.w EXCEPT !.registered = @ \cup {u.mStdIn1},
                                  !.lastWrite = "blocked"]
               ELSE IF res.n = want
               THEN [res.w EXCEPT !.mStdInBuffer = Tail(@), !.mStdInIndex = 0,
                                  !.lastWrite = "empty"]
               ELSE [res.w EXCEPT !.mStdInIndex = @ + res.n,
                                  !.registered = @ \cup {u.mStdIn1},
                                  !.lastWrite = "blocked"]

\* Process::handleInput(fd), fd being mStdIn[1].
handleInput(w, ub) ==
    handleInputLoop([w EXCEPT !.registered = @ \ {w.mStdIn1}], ub)

\* Process::write(data).
write(w, data, ub) ==
    IF data # <<>> /\ w.mStdIn1 # NoFd
    THEN handleInput([w EXCEPT !.mStdInBuffer = Append(@, data),
                               !.accepted = @ \o data], ub)
    ELSE w

\* Process::closeStdIn, closeStdOut, closeStdErr.
closeStdIn(w) ==
    IF w.mStdIn1 = NoFd THEN w
    ELSE [w EXCEPT !.registered = @ \ {w.mStdIn1},
                   !.openFds = @ \ {w.mStdIn1},
                   !.mStdIn1 = NoFd]

closeStdOut(w) ==
    IF w.mStdOut0 = NoFd THEN w
    ELSE [w EXCEPT !.registered = @ \ {w.mStdOut0},
                   !.openFds = @ \ {w.mStdOut0},
                   !.mStdOut0 = NoFd]

closeStdErr(w) ==
    IF w.mStdErr0 = NoFd THEN w
    ELSE [w EXCEPT !.registered = @ \ {w.mStdErr0},
                   !.openFds = @ \ {w.mStdErr0},
                   !.mStdErr0 = NoFd]

\* ------------------------------------------------------------------------
\* Process: the stdout / stderr read path
\* ------------------------------------------------------------------------
\* The members and the pipe that belong to a stream.
Fd(s) == IF s = "out" THEN "mStdOut0" ELSE "mStdErr0"
Buffer(s) == IF s = "out" THEN "mStdOutBuffer" ELSE "mStdErrBuffer"
Index(s) == IF s = "out" THEN "mStdOutIndex" ELSE "mStdErrIndex"
Pipe(s) == IF s = "out" THEN "outPipe" ELSE "errPipe"
ReadyRead(s) == IF s = "out" THEN "readyReadStdOut" ELSE "readyReadStdErr"

\* Signal::operator(): the connected callbacks run in the calling thread.
Emit(w, signal, thread) ==
    [w EXCEPT !.emitted = @ \cup {[signal |-> signal, thread |-> thread]}]

\* ::read(fd, buf, BufSize) on a non-blocking pipe: -1 on a closed
\* descriptor or an empty pipe that still has a writer, 0 at end of file,
\* otherwise up to BufSize bytes.
sysRead(w, s) ==
    IF w[Fd(s)] \notin w.openFds THEN [r |-> 0 - 1, buf |-> <<>>, w |-> w]
    ELSE IF w[Pipe(s)] = <<>>
    THEN [r |-> IF w.childState = "running" THEN 0 - 1 ELSE 0, buf |-> <<>>, w |-> w]
    ELSE LET r == Min(BufSize, Len(w[Pipe(s)]))
         IN [r |-> r, buf |-> SubSeq(w[Pipe(s)], 1, r),
             w |-> [w EXCEPT ![Pipe(s)] = SubSeq(@, r + 1, Len(@))]]

\* An append that never compacts: over the bound it always clears.
appendChunkNoCompact(w, s, buf) ==
    LET r == Len(buf)
        sz == Len(w[Buffer(s)])
    IN IF sz + r > MaxSize
       THEN [w EXCEPT ![Buffer(s)] = buf, ![Index(s)] = 0,
                      !.taken[s] = @ \o buf,
                      !.lost[s] = @ \o Mid(w[Buffer(s)], w[Index(s)]),
                      !.drops = Append(@, [unread |-> sz - w[Index(s)], chunk |-> r]),
                      !.lastAppend = "drop"]
       ELSE [w EXCEPT ![Buffer(s)] = @ \o buf,
                      !.taken[s] = @ \o buf, !.lastAppend = "plain"]

\* An append that compacts but forgets the cap when compaction is not enough.
appendChunkNoDrop(w, s, buf) ==
    LET r == Len(buf)
        sz == Len(w[Buffer(s)])
    IN IF sz + r > MaxSize
       THEN [w EXCEPT ![Buffer(s)] = Mid(@, w[Index(s)]) \o buf, ![Index(s)] = 0,
                      !.taken[s] = @ \o buf, !.lastAppend = "compact"]
       ELSE [w EXCEPT ![Buffer(s)] = @ \o buf,
                      !.taken[s] = @ \o buf, !.lastAppend = "plain"]

\* Lines 581-597 of handleOutput: make room, then append the chunk.
appendChunk(w, s, buf) ==
    LET r == Len(buf)
        sz == Len(w[Buffer(s)])
        index == w[Index(s)]
    IN IF sz + r > MaxSize
       THEN IF sz + r - index > MaxSize
            THEN \* error("... buffer too big, dropping data")
                 [w EXCEPT ![Buffer(s)] = buf, ![Index(s)] = 0,
                           !.taken[s] = @ \o buf,
                           !.lost[s] = @ \o Mid(w[Buffer(s)], index),
                           !.drops = Append(@, [unread |-> sz - index, chunk |-> r]),
                           !.lastAppend = "drop"]
            ELSE [w EXCEPT ![Buffer(s)] = Mid(@, index) \o buf, ![Index(s)] = 0,
                           !.taken[s] = @ \o buf, !.lastAppend = "compact"]
       ELSE [w EXCEPT ![Buffer(s)] = @ \o buf,
                      !.taken[s] = @ \o buf, !.lastAppend = "plain"]

\* The for (;;) of handleOutput, then the signal.
RECURSIVE handleOutputLoop(_, _, _, _)
handleOutputLoop(w, s, total, thread) ==
    LET rd == sysRead(w, s)
    IN IF rd.r = 0 - 1
       THEN IF total # 0 THEN Emit(rd.w, ReadyRead(s), thread) ELSE rd.w
       ELSE IF rd.r = 0
       THEN LET u == [rd.w EXCEPT !.registered = @ \ {w[Fd(s)]}]
            IN IF total # 0 THEN Emit(u, ReadyRead(s), thread) ELSE u
       ELSE handleOutputLoop(appendChunk(rd.w, s, rd.buf), s, total + rd.r, thread)

\* A handleOutput that signals whether or not it has read anything.
handleOutputAlwaysSignals(w, s, thread) ==
    Emit(handleOutputLoop(w, s, 0, thread), ReadyRead(s), thread)

\* Process::handleOutput(fd, buffer, index, signal) for the stream s, run by
\* the given thread.
handleOutput(w, s, thread) == handleOutputLoop(w, s, 0, thread)

\* Process::readAllStdOut / readAllStdErr: the user takes the whole buffer.
readAll(w, s) ==
    [w EXCEPT ![Buffer(s)] = <<>>, ![Index(s)] = 0,
              !.used[s] = Len(w.taken[s]) - Len(w.lost[s])]

\* ------------------------------------------------------------------------
\* Process: finish and startInternal
\* ------------------------------------------------------------------------

\* finish, lines 503-508: what both modes do under mMutex.
finishCommon(w, returnCode) ==
    closeStdIn([w EXCEPT !.mPid = NoPid, !.mReturn = returnCode,
                         !.mStdInBuffer = <<>>, !.accepted = <<>>])

\* finish in Sync mode, line 520: ring the doorbell.
finishRing(w, returnCode) ==
    LET u == finishCommon(w, returnCode)
    IN IF u.mSync1 \in u.openFds THEN [u EXCEPT !.syncPipe = Append(@, "q")] ELSE u

\* finish in Sync mode, lines 521-522: close the write end of the sync pipe.
finishClose(w) ==
    [w EXCEPT !.openFds = @ \ {w.mSync1}, !.mSync1 = NoFd]

\* A finish that leaves mPid as it was.
finishKeepsPid(w, returnCode, thread) ==
    LET u == closeStdIn([w EXCEPT !.mReturn = returnCode,
                                  !.mStdInBuffer = <<>>, !.accepted = <<>>])
    IN IF w.mMode = "Async"
       THEN Emit(closeStdErr(closeStdOut(
                handleOutput(handleOutput(u, "out", thread), "err", thread))),
                "finished", thread)
       ELSE finishClose([u EXCEPT !.syncPipe = Append(@, "q")])

\* Process::finish(returnCode), run by the given thread.
finish(w, returnCode, thread) ==
    IF w.mMode = "Async"
    THEN Emit(closeStdErr(closeStdOut(
             handleOutput(handleOutput(finishCommon(w, returnCode), "out", thread),
                          "err", thread))),
             "finished", thread)
    ELSE finishClose(finishRing(w, returnCode))

\* What a spawn attempt can come to.
StartOutcomes == {"notfound", "forkfailed", "ok"}

\* startInternal with the pipes created before the lookup.
startInternalPipesFirst(w, outcome, timeout) ==
    [w EXCEPT !.mStdIn1 = StdInFd, !.mStdOut0 = StdOutFd, !.mStdErr0 = StdErrFd,
              !.openFds = @ \cup {StdInFd, StdOutFd, StdErrFd},
              !.mErrorString = IF outcome = "notfound" THEN "Command not found"
                               ELSE "Fork failed",
              !.execResult = "Error"]

\* Process::startInternal up to the end of the fork branches: the lookup,
\* the pipes, the fork and, in the parent, the registration of the output
\* descriptors (Async) or the set-up of the select loop (Sync).
startInternal(w, outcome, timeout) ==
    IF outcome = "notfound"
    THEN [w EXCEPT !.mErrorString = "Command not found", !.execResult = "Error"]
    ELSE
    LET sync == IF w.mMode = "Sync" THEN {SyncReadFd, SyncWriteFd} ELSE {}
        piped == [w EXCEPT !.mErrorString = "",
                           !.mStdIn1 = StdInFd, !.mStdOut0 = StdOutFd,
                           !.mStdErr0 = StdErrFd,
                           !.mSync0 = IF w.mMode = "Sync" THEN SyncReadFd ELSE @,
                           !.mSync1 = IF w.mMode = "Sync" THEN SyncWriteFd ELSE @,
                           !.openFds = @ \cup {StdInFd, StdOutFd, StdErrFd} \cup sync,
                           !.stdinPipe = <<>>, !.stdinRoom = StdinCap,
                           !.outPipe = <<>>, !.errPipe = <<>>,
                           !.syncPipe = IF w.mMode = "Sync" THEN <<>> ELSE @]
    IN IF outcome = "forkfailed"
       THEN [piped EXCEPT !.mPid = 0 - 1,
                          !.openFds = @ \ {StdInFd, StdOutFd, StdErrFd},
                          !.mErrorString = "Fork failed",
                          !.execResult = "Error"]
       ELSE LET forked == [piped EXCEPT !.mPid = ChildPid, !.childState = "running"]
            IN IF w.mMode = "Async"
               THEN [forked EXCEPT !.registered = @ \cup {StdOutFd, StdErrFd},
                                   !.execResult = "Done"]
               ELSE [closeStdIn(forked) EXCEPT
                         !.started = IF timeout > 0 THEN w.clock ELSE @,
                         !.selecttime = IF timeout > 0 THEN w.clock + timeout ELSE @,
                         !.timeout = timeout,
                         !.selectEntered = w.clock,
                         !.execResult = "none",
                         !.execPc = "select"]

\* Process::processCallback(fd, mode) for a descriptor that is ready.
processCallback(w, fd, ub, thread) ==
    IF fd = w.mStdIn1 THEN handleInput(w, ub)
    ELSE IF fd = w.mStdOut0 THEN handleOutput(w, "out", thread)
    ELSE IF fd = w.mStdErr0 THEN handleOutput(w, "err", thread)
    ELSE w

\* ------------------------------------------------------------------------
\* Process in Async mode: the user, the loop, the child and the supervisor
\* ------------------------------------------------------------------------
Quiet == io.loopPc = "idle" /\ io.execPc = "idle" /\ io.finPc = "idle"

\* Process::start(command, ...): mMode = Async, then startInternal.
Start ==
    /\ Quiet
    /\ io.mPid = NoPid
    /\ io.starts < MaxStarts
    /\ \E outcome \in StartOutcomes :
           io' = startInternal([io EXCEPT !.mMode = "Async", !.starts = @ + 1],
                               outcome, 0)
    /\ UNCHANGED << connVars, procVars, loopVars >>

\* The user calls Process::write(data) on the loop thread.
Write ==
    /\ Quiet
    /\ io.writes < MaxWrites
    /\ \E data \in StdinData, ub \in UBOutcomes :
           io' = write([io EXCEPT !.writes = @ + 1], data, ub)
    /\ UNCHANGED << connVars, procVars, loopVars >>

\* The loop finds the stdin descriptor writable and calls processCallback.
StdinWritable ==
    /\ Quiet
    /\ io.mStdIn1 \in io.registered
    /\ io.mStdIn1 \in io.openFds
    /\ io.childState = "running"
    /\ io.stdinRoom > 0
    /\ \E ub \in UBOutcomes : io' = processCallback(io, io.mStdIn1, ub, "loop")
    /\ UNCHANGED << connVars, procVars, loopVars >>

\* The child reads some of its stdin.
ChildReadsStdin ==
    /\ io.childState = "running"
    /\ \E k \in 1..StdinCap :
           /\ io.stdinRoom + k <= StdinCap
           /\ io' = [io EXCEPT !.stdinRoom = @ + k]
    /\ UNCHANGED << connVars, procVars, loopVars >>

\* The child ends, by _exit(1) after a failed exec or by a signal; its pipe
\* ends close.
ChildEnds ==
    /\ io.childState = "running"
    /\ \E status \in {ExitStatusWord(1)} \cup {SignalStatusWord(sig) : sig \in KillSignals} :
           io' = [io EXCEPT !.childState = "zombie", !.wstatus = status]
    /\ UNCHANGED << connVars, procVars, loopVars >>

\* ProcessThread::run, lines 97-113, for this Process in Async mode: waitpid
\* returns its pid and the supervisor thread calls finish(ret).
SupervisorFinish ==
    /\ io.mMode = "Async"
    /\ io.childState = "zombie"
    /\ io' = finish([io EXCEPT !.childState = "none"], ReturnCode(io.wstatus),
                    "supervisor")
    /\ UNCHANGED << connVars, procVars, loopVars >>

\* The child writes a byte to its stdout or stderr; each byte it ever writes
\* is distinct.
ChildWrites ==
    /\ io.childState = "running"
    /\ io.produced < MaxOutput
    /\ \E s \in Streams :
           io' = [io EXCEPT ![Pipe(s)] = Append(@, io.produced + 1),
                            !.produced = @ + 1]
    /\ UNCHANGED << connVars, procVars, loopVars >>

\* The loop finds stdout or stderr readable (data, or end of file) and calls
\* processCallback, which runs handleOutput to its end.
OutputReadable ==
    /\ Quiet
    /\ \E s \in Streams :
           /\ io[Fd(s)] \in io.registered
           /\ io[Fd(s)] \in io.openFds
           /\ io[Pipe(s)] # <<>> \/ io.childState # "running"
           /\ io' = processCallback(io, io[Fd(s)], "fault", "loop")
    /\ UNCHANGED << connVars, procVars, loopVars >>

\* The user consumes part of what a buffer holds, advancing its index.
Consume ==
    /\ Quiet
    /\ \E s \in Streams :
           \E k \in 1..MaxSize :
               /\ io[Index(s)] + k <= Len(io[Buffer(s)])
               /\ io' = [io EXCEPT ![Index(s)] = @ + k, !.used[s] = @ + k]
    /\ UNCHANGED << connVars, procVars, loopVars >>

\* The user calls readAllStdOut or readAllStdErr.
ReadAll ==
    /\ Quiet
    /\ \E s \in Streams :
           /\ io[Buffer(s)] # <<>>
           /\ io' = readAll(io, s)
    /\ UNCHANGED << connVars, procVars, loopVars >>

\* The loop thread inside handleOutput, one system call at a time.  It
\* enters when the loop reports the descriptor readable; this step is the
\* ::read of line 570 and, at -1 or 0, the end of the function.
LoopRead ==
    /\ io.execPc = "idle"
    /\ \E s \in Streams :
           /\ \/ /\ io.loopPc = "idle"
                 /\ io[Fd(s)] \in io.registered
                 /\ io[Fd(s)] \in io.openFds
                 /\ io[Pipe(s)] # <<>> \/ io.childState # "running"
              \/ /\ io.loopPc = "read"
                 /\ s = io.loopStream
           /\ LET total == IF io.loopPc = "idle" THEN 0 ELSE io.loopTotal
                  rd == sysRead(io, s)
                  left == IF rd.r = 0
                          THEN [rd.w EXCEPT !.registered = @ \ {io[Fd(s)]}]
                          ELSE rd.w
              IN IF rd.r > 0
                 THEN io' = [rd.w EXCEPT !.loopPc = "append", !.loopStream = s,
                                         !.loopBuf = rd.buf, !.loopTotal = total]
                 ELSE io' = [(IF total # 0 THEN Emit(left, ReadyRead(s), "loop")
                              ELSE left)
                                EXCEPT !.loopPc = "idle", !.loopTotal = 0,
                                       !.loopBuf = <<>>]
    /\ UNCHANGED << connVars, procVars, loopVars >>

\* The loop thread appends the chunk it has read: lines 581-597.
LoopAppend ==
    /\ io.loopPc = "append"
    /\ io' = [appendChunk(io, io.loopStream, io.loopBuf) EXCEPT
                  !.loopPc = "read",
                  !.loopTotal = @ + Len(io.loopBuf),
                  !.loopBuf = <<>>]
    /\ UNCHANGED << connVars, procVars, loopVars >>

\* ------------------------------------------------------------------------
\* Process in Sync mode: exec, its select loop, the clock and the supervisor
\* ------------------------------------------------------------------------

\* Process::exec(command, arguments, timeout): mMode = Sync, then
\* startInternal up to its first select.
Exec ==
    /\ Quiet
    /\ io.mPid = NoPid
    /\ io.mMutex = "free"
    /\ io.starts < MaxStarts
    /\ \E outcome \in StartOutcomes, timeout \in Timeouts :
           io' = startInternal([io EXCEPT !.mMode = "Sync", !.starts = @ + 1,
                                          !.asserted = "none"],
                               outcome, timeout)
    /\ UNCHANGED << connVars, procVars, loopVars >>

\* The descriptors select reports readable: a pipe with data or at end of
\* file, and the sync pipe once the doorbell byte is in it.
Readable(w) ==
    {fd \in {w.mStdOut0} \cap w.openFds : w.outPipe # <<>> \/ w.childState # "running"}
    \cup {fd \in {w.mStdErr0} \cap w.openFds : w.errPipe # <<>> \/ w.childState # "running"}
    \cup {fd \in {w.mSync0} \cap w.openFds : w.syncPipe # <<>>}

\* select was given the timeval selecttime and has waited that long.
SelectExpired(w) ==
    w.timeout > 0 /\ w.clock - w.selectEntered >= w.selecttime

\* A millisecond passes.  The thread in exec takes no time between two
\* selects, and select returns as soon as it can.
Tick ==
    /\ io.clock < MaxClock
    /\ io.execPc # "doorbell"
    /\ ~(io.execPc = "select" /\ (Readable(io) # {} \/ SelectExpired(io)))
    /\ io' = [io EXCEPT !.clock = @ + 1]
    /\ UNCHANGED << connVars, procVars, loopVars >>

\* Process::stop(): SIGTERM to the child, which dies of it.
stop(w) ==
    IF w.mPid = NoPid THEN w
    ELSE IF w.childState = "running"
    THEN [w EXCEPT !.childState = "zombie", !.wstatus = SignalStatusWord(15)]
    ELSE w

\* One turn of the select loop, lines 358-403, up to the return, the next
\* select or the wait for mMutex at the doorbell.
ExecSelect ==
    /\ io.execPc = "select"
    /\ Readable(io) # {} \/ SelectExpired(io)
    /\ LET rfds == Readable(io)
           a == IF io.mStdOut0 \in rfds THEN handleOutput(io, "out", "caller") ELSE io
           b == IF io.mStdErr0 \in rfds THEN handleOutput(a, "err", "caller") ELSE a
       IN IF io.mSync0 \in rfds
          THEN io' = [b EXCEPT !.execPc = "doorbell"]
          ELSE IF b.timeout # 0
          THEN IF b.clock - b.started >= b.timeout
               THEN io' = [stop(b) EXCEPT !.execPc = "idle", !.execResult = "TimedOut"]
               ELSE io' = [b EXCEPT !.selecttime = b.started + b.timeout,
                                    !.selectEntered = b.clock]
          ELSE io' = [b EXCEPT !.selectEntered = b.clock]
    /\ UNCHANGED << connVars, procVars, loopVars >>

\* Lines 373-390: under mMutex, the two assertions, the last drain, the
\* closes, then mFinished and return Done.
doorbell(w) ==
    LET checked == [w EXCEPT !.asserted = IF w.mPid = NoPid /\ w.mSync1 = NoFd
                                          THEN "held" ELSE "failed"]
        drained == handleOutput(handleOutput(checked, "out", "caller"), "err", "caller")
        closed == closeStdErr(closeStdOut(drained))
    IN [Emit(closed, "finished", "caller") EXCEPT
            !.openFds = @ \ {w.mSync0}, !.mSync0 = NoFd,
            !.execPc = "idle", !.execResult = "Done"]

\* The doorbell branch entered without waiting for mMutex.
ExecDoorbellNoLock ==
    /\ io.execPc = "doorbell"
    /\ io' = doorbell(io)
    /\ UNCHANGED << connVars, procVars, loopVars >>

\* The exec thread has seen the sync pipe readable and takes mMutex.
ExecDoorbell ==
    /\ io.execPc = "doorbell"
    /\ io.mMutex = "free"
    /\ io' = doorbell(io)
    /\ UNCHANGED << connVars, procVars, loopVars >>

\* ProcessThread::run for a Process in Sync mode: waitpid returns its pid and
\* the supervisor thread runs finish(ret) up to the byte written to the sync
\* pipe (line 520), holding mMutex.
SupervisorRing ==
    /\ io.mMode = "Sync"
    /\ io.childState = "zombie"
    /\ io.mMutex = "free"
    /\ io' = [finishRing([io EXCEPT !.childState = "none"], ReturnCode(io.wstatus))
                 EXCEPT !.mMutex = "supervisor"]
    /\ UNCHANGED << connVars, procVars, loopVars >>

\* The rest of finish in Sync mode: lines 521-524.
SupervisorClose ==
    /\ io.mMode = "Sync"
    /\ io.mMutex = "supervisor"
    /\ io' = [finishClose(io) EXCEPT !.mMutex = "free"]
    /\ UNCHANGED << connVars, procVars, loopVars >>

\* ------------------------------------------------------------------------
\* Process::finish in Async mode, one critical section at a time
\* ------------------------------------------------------------------------

\* finish, lines 510-524, with mFinished(this) moved inside the block.
finishDrainEmits(w, thread) ==
    Emit(closeStdErr(closeStdOut(
             handleOutput(handleOutput(w, "out", thread), "err", thread))),
         "finished", thread)

\* finish, lines 510-515: the last drain of both pipes and the closes.
finishDrain(w, thread) ==
    closeStdErr(closeStdOut(
        handleOutput(handleOutput(w, "out", thread), "err", thread)))

\* ProcessThread::run reaps the child of this Process and calls finish(ret):
\* the supervisor thread takes mMutex (line 502) and runs lines 503-508.
FinishEnter ==
    /\ io.mMode = "Async"
    /\ io.childState = "zombie"
    /\ io.finPc = "idle"
    /\ io.mMutex = "free"
    /\ io' = [finishCommon([io EXCEPT !.childState = "none"], ReturnCode(io.wstatus))
                 EXCEPT !.mMutex = "supervisor", !.finPc = "locked"]
    /\ UNCHANGED << connVars, procVars, loopVars >>

\* The locked block left before the drain, and finished emitted with it.
FinishDrainEmits ==
    /\ io.finPc = "locked"
    /\ io' = [finishDrainEmits(io, "supervisor") EXCEPT
                  !.mMutex = "free", !.finPc = "idle"]
    /\ UNCHANGED << connVars, procVars, loopVars >>

\* Lines 510-515 and the end of the block at line 524, where the lock_guard
\* releases mMutex.
FinishDrain ==
    /\ io.finPc = "locked"
    /\ io' = [finishDrain(io, "supervisor") EXCEPT !.mMutex = "free", !.finPc = "emit"]
    /\ UNCHANGED << connVars, procVars, loopVars >>

\* Lines 526-527: mFinished(this).
FinishEmit ==
    /\ io.finPc = "emit"
    /\ io' = [Emit(io, "finished", "supervisor") EXCEPT !.finPc = "idle"]
    /\ UNCHANGED << connVars, procVars, loopVars >>

\* ------------------------------------------------------------------------
\* Process::stop against the supervisor
\* ------------------------------------------------------------------------

\* The Process has a child that has been forked and not yet reaped.
HasLiveChild(p, pid) ==
    /\ pid # NoPid
    /\ mPid[p] = pid
    /\ child[pid] # "none"
    /\ ~(sup.pc = "finish" /\ sup.process = p)

\* What ::kill(pid, SIGTERM) sent by stop() on p reaches: with -1 every
\* process the caller may signal; otherwise the child of p while it runs or
\* is a zombie, and whatever holds the number once that child is reaped.
KillTarget(p, pid) ==
    IF pid = NoPid THEN "everyone"
    ELSE IF HasLiveChild(p, pid) THEN child[pid]
    ELSE "reaped"

\* Line 609: if (mPid == -1) return.  No mutex is taken.
StopTest(p) ==
    /\ startPc[p] = "idle"
    /\ stopping[p] = NoPid
    /\ IF mPid[p] = NoPid
       THEN lastKill' = [pid |-> NoPid, target |-> "none"] /\ UNCHANGED stopping
       ELSE stopping' = [stopping EXCEPT ![p] = mPid[p]] /\ UNCHANGED lastKill
    /\ UNCHANGED << ioVars, connVars, child, wstatus, how, sigPending, sProcessPipe,
                    sProcesses, sProcessMutex, sup, mPid, mReturn, startPc, finishLog,
                    forks, sProcessThread, shutdownPc, errno, inHandler >>

\* Line 612: ::kill(mPid, SIGTERM).  mPid is read a second time, or the value
\* tested at line 609 is still in a register: the compiler decides, the read
\* being unsynchronised.
StopKill(p) ==
    /\ stopping[p] # NoPid
    /\ \E pid \in {stopping[p], mPid[p]} :
           /\ lastKill' = [pid |-> pid, target |-> KillTarget(p, pid)]
           /\ IF pid # NoPid /\ child[pid] = "running"
              THEN /\ child' = [child EXCEPT ![pid] = "zombie"]
                   /\ wstatus' = [wstatus EXCEPT ![pid] = SignalStatusWord(15)]
                   /\ how' = [how EXCEPT ![pid] = [kind |-> "signal", n |-> 15]]
                   /\ sigPending' = TRUE
              ELSE UNCHANGED << child, wstatus, how, sigPending >>
    /\ stopping' = [stopping EXCEPT ![p] = NoPid]
    /\ UNCHANGED << ioVars, connVars, sProcessPipe, sProcesses, sProcessMutex, sup, mPid,
                    mReturn, startPc, finishLog, forks, sProcessThread, shutdownPc,
                    errno, inHandler >>

\* ------------------------------------------------------------------------
\* Process::findCommand and the spawn of a named command
\* ------------------------------------------------------------------------
\* Strings are sequences of characters; a directory name and a file name
\* count as one character each.
Commands == {<<>>, <<"/", "x">>, <<"x">>, <<"y">>}

\* getenv("PATH"): a null pointer, or a string, split at the colons.
Unset == [set |-> FALSE, dirs |-> <<>>]
PathEnvs ==
    {Unset} \cup
    {[set |-> TRUE, dirs |-> d] : d \in {<<>>, <<"d1">>, <<"d1", "d2">>, <<"d2", "d1">>}}

\* The files a PATH entry can hold, and the file systems: which of them
\* exist, and which of those are readable and executable.
Files == {<<"d1", "x">>, <<"d2", "x">>}
FileSystems ==
    {[exists |-> e, exec |-> x] : e \in SUBSET Files, x \in SUBSET Files} \cap
    {fs \in [exists : SUBSET Files, exec : SUBSET Files] : fs.exec \subseteq fs.exists}

\* Path::resolved(command, Path::RealPath, dir, &ok): the file of that name in
\* dir; ok when it exists.
Resolved(command, dir, fs) ==
    [ret |-> <<dir>> \o command, ok |-> (<<dir>> \o command) \in fs.exists]

\* !access(ret, R_OK | X_OK)
Accessible(ret, fs) == ret \in fs.exec

\* Process::findCommand(command): the Path handed to execv, empty when there
\* is none.
findCommand(command, path, fs) ==
    IF command = <<>> \/ command[1] = "/" THEN command
    ELSE IF ~path.set THEN <<>>
    ELSE LET paths == path.dirs
             hits == {i \in 1..Len(paths) :
                         /\ Resolved(command, paths[i], fs).ok
                         /\ Accessible(Resolved(command, paths[i], fs).ret, fs)}
         IN IF hits = {} THEN <<>>
            ELSE Resolved(command, paths[CHOOSE i \in hits : \A j \in hits : i <= j], fs).ret

\* What startInternal comes to once findCommand has returned cmd: not found
\* for an empty Path, otherwise whatever fork does.
OutcomesOf(cmd) == IF cmd = <<>> THEN {"notfound"} ELSE {"forkfailed", "ok"}

\* Process::start(command, ...) with the environment and the file system it
\* finds.
StartCommand ==
    /\ Quiet
    /\ io.mPid = NoPid
    /\ io.starts < MaxStarts
    /\ \E command \in Commands, path \in PathEnvs, fs \in FileSystems :
           LET cmd == findCommand(command, path, fs)
           IN \E outcome \in OutcomesOf(cmd) :
                  io' = startInternal(
                            [io EXCEPT !.mMode = "Async", !.starts = @ + 1,
                                       !.lookup = [command |-> command, path |-> path,
                                                   cmd |-> cmd, files |-> fs]],
                            outcome, 0)
    /\ UNCHANGED << connVars, procVars, loopVars >>

\* Process::exec(command, arguments, timeout), likewise.
ExecCommand ==
    /\ Quiet
    /\ io.mPid = NoPid
    /\ io.mMutex = "free"
    /\ io.starts < MaxStarts
    /\ \E command \in Commands, path \in PathEnvs, fs \in FileSystems :
           LET cmd == findCommand(command, path, fs)
           IN \E outcome \in OutcomesOf(cmd), timeout \in Timeouts :
                  io' = startInternal(
                            [io EXCEPT !.mMode = "Sync", !.starts = @ + 1,
                                       !.asserted = "none",
                                       !.lookup = [command |-> command, path |-> path,
                                                   cmd |-> cmd, files |-> fs]],
                            outcome, timeout)
    /\ UNCHANGED << connVars, procVars, loopVars >>

\* ------------------------------------------------------------------------
\* ProcessThread::wakeup on a full pipe
\* ------------------------------------------------------------------------
EAGAIN == 11

\* processSignalHandler while the signal pipe is full: the ::write of line
\* 139 fails and sets the errno of the interrupted thread, and the loop of
\* lines 138-141 tries again.
ProcessSignalHandlerRetry ==
    /\ sigPending
    /\ Len(sProcessPipe) >= PipeCap
    /\ errno' = EAGAIN
    /\ UNCHANGED << ioVars, connVars, child, wstatus, how, sigPending, sProcessPipe,
                    sProcesses, sProcessMutex, sup, mPid, mReturn, startPc, finishLog,
                    forks, stopping, lastKill, sProcessThread, shutdownPc, inHandler >>

\* ------------------------------------------------------------------------
\* ProcessThread::shutdown, called by ~ProcessThreadKiller
\* ------------------------------------------------------------------------

\* ProcessThread::wakeup(Stop): one 's' is written to the signal pipe; the
\* write is retried for as long as the pipe is full.
wakeupStop(pipe) == Append(pipe, "s")

\* Lines 126-127: the static destructor runs shutdown, which finds the
\* thread installed and wakes it with Stop.
ShutdownWakeup ==
    /\ shutdownPc = "idle"
    /\ sProcessThread = "thread"
    /\ Len(sProcessPipe) < PipeCap
    /\ sProcessPipe' = wakeupStop(sProcessPipe)
    /\ shutdownPc' = "join"
    /\ UNCHANGED << ioVars, connVars, child, wstatus, how, sigPending, sProcesses,
                    sProcessMutex, sup, mPid, mReturn, startPc, finishLog, forks,
                    stopping, lastKill, sProcessThread, errno, inHandler >>

\* Lines 128-130: join returns once run has returned; the thread object is
\* deleted and the pointer cleared.
ShutdownJoin ==
    /\ shutdownPc = "join"
    /\ sup.pc = "done"
    /\ sProcessThread' = "null"
    /\ shutdownPc' = "done"
    /\ UNCHANGED << ioVars, connVars, child, wstatus, how, sigPending, sProcessPipe,
                    sProcesses, sProcessMutex, sup, mPid, mReturn, startPc, finishLog,
                    forks, stopping, lastKill, errno, inHandler >>

\* ------------------------------------------------------------------------
\* processSignalHandler on the thread the kernel picks
\* ------------------------------------------------------------------------

\* The threads SIGCHLD can be delivered on.  The handler is installed with
\* ::signal (line 69) and no thread blocks the signal, so the kernel picks
\* any thread of the process: one that runs the program ("main"), or the one
\* inside ProcessThread::run.
SignalThreads == {"main", "supervisor"}

\* The thread inside ProcessThread::run is running run, not the handler.
SupervisorRuns == inHandler # "supervisor"

\* The pending SIGCHLD is delivered on thread t, which is interrupted and
\* enters processSignalHandler, line 145.  SIGCHLD stays blocked until the
\* handler returns.
SignalDelivered(t) ==
    /\ sigPending
    /\ inHandler = "none"
    /\ t = "supervisor" => sup.pc # "done"
    /\ inHandler' = t
    /\ sigPending' = FALSE
    /\ UNCHANGED << ioVars, connVars, child, wstatus, how, sProcessPipe, sProcesses,
                    sProcessMutex, sup, mPid, mReturn, startPc, finishLog, forks,
                    stopping, lastKill, sProcessThread, shutdownPc, errno >>

\* wakeup(Child), lines 138-140, with room in the pipe: the ::write returns
\* 1, the loop breaks and the handler returns.
HandlerWrite ==
    /\ inHandler # "none"
    /\ Len(sProcessPipe) < PipeCap
    /\ sProcessPipe' = wakeupChild(sProcessPipe)
    /\ inHandler' = "none"
    /\ UNCHANGED << ioVars, connVars, child, wstatus, how, sigPending, sProcesses,
                    sProcessMutex, sup, mPid, mReturn, startPc, finishLog, forks,
                    stopping, lastKill, sProcessThread, shutdownPc, errno >>

\* wakeup(Child), lines 138-141, with the pipe full: the ::write on the
\* non-blocking end returns -1 with errno EAGAIN, the while condition holds
\* and the loop goes round.
HandlerRetry ==
    /\ inHandler # "none"
    /\ Len(sProcessPipe) >= PipeCap
    /\ errno' = EAGAIN
    /\ UNCHANGED << ioVars, connVars, child, wstatus, how, sigPending, sProcessPipe,
                    sProcesses, sProcessMutex, sup, mPid, mReturn, startPc, finishLog,
                    forks, stopping, lastKill, sProcessThread, shutdownPc, inHandler >>

\* ------------------------------------------------------------------------
\* EventLoop: posted events
\* ------------------------------------------------------------------------
MaxPosts == 2        \* events each thread posts

\* The thread that owns the loop and two other threads.
LoopThread == "loop"
Threads == {"loop", "t1", "t2"}

InitLoop ==
    /\ events = <<>>
    /\ draining = <<>>
    /\ posted = [t \in Threads |-> 0]
    /\ enqueued = <<>>
    /\ executed = <<>>

\* The k-th event a thread posts.
EventOf(t, k) == [by |-> t, n |-> k]

\* EventLoop::post(event), called by thread t: the event is appended to the
\* queue under the loop's mutex.
Post(t) ==
    /\ posted[t] < MaxPosts
    /\ events' = Append(events, EventOf(t, posted[t] + 1))
    /\ enqueued' = Append(enqueued, EventOf(t, posted[t] + 1))
    /\ posted' = [posted EXCEPT ![t] = @ + 1]
    /\ UNCHANGED << connVars, procVars, io, draining, executed >>

\* The loop thread starts a drain: it takes what the queue holds; events
\* posted from now on wait for the next iteration.
DrainBegin ==
    /\ draining = <<>>
    /\ events # <<>>
    /\ draining' = events
    /\ events' = <<>>
    /\ UNCHANGED << connVars, procVars, io, posted, enqueued, executed >>

\* A drain that runs the newest event first.
ExecEventNewestFirst ==
    /\ draining # <<>>
    /\ executed' = Append(executed, [event |-> draining[Len(draining)],
                                     thread |-> LoopThread])
    /\ draining' = SubSeq(draining, 1, Len(draining) - 1)
    /\ UNCHANGED << connVars, procVars, io, events, posted, enqueued >>

\* The loop thread runs the next event of the drain: event->exec().
ExecEvent ==
    /\ draining # <<>>
    /\ executed' = Append(executed, [event |-> Head(draining), thread |-> LoopThread])
    /\ draining' = Tail(draining)
    /\ UNCHANGED << connVars, procVars, io, events, posted, enqueued >>

\* ------------------------------------------------------------------------
\* Specifications
\* ------------------------------------------------------------------------
\* Connection(client): the Connection wraps a socket that is already connected.
InitConnAccepted ==
    /\ stream = <<>>
    /\ flushed = 0
    /\ received = 0
    /\ frames = <<>>
    /\ sockState = "connected"
    /\ mPendingWrite = 0
    /\ sendFinished = <<>>
    /\ firedForLast = "none"
    /\ lastSend = NoSend
    /\ mBuffers = <<>>
    /\ mPendingRead = 0
    /\ delivered = <<>>
    /\ consumed = <<>>

Init == InitConn /\ InitProc /\ InitIO /\ InitLoop

InitAccepted == InitConnAccepted /\ InitProc /\ InitIO /\ InitLoop

\* A receiving Connection fed by an arbitrary peer.
NextFramer == PeerWrite \/ Receive
SpecFramer == Init /\ [][NextFramer]_vars

\* A sending Connection, its socket, and the Connection at the other end.
NextSend == Connect \/ Disconnect \/ SendData \/ DataWritten
SpecSend == Init /\ [][NextSend]_vars

\* What sendData puts on the stream, read by the Connection at the other end.
NextRoundTrip == SendData \/ DataWritten \/ Receive
SpecRoundTrip == InitAccepted /\ [][NextRoundTrip]_vars

\* The threads that start Processes, their children, the SIGCHLD handler
\* and the supervisor thread.
NextSupervisor ==
    \/ \E p \in Procs : Fork(p)
    \/ \E p \in Procs : AddPid(p)
    \/ \E pid \in Pids : ChildExit(pid)
    \/ \E pid \in Pids : ChildKilled(pid)
    \/ ProcessSignalHandler
    \/ SupRead
    \/ SupWaitpid
    \/ SupWalkEnd
    \/ SupFinish
SpecSupervisor == Init /\ [][NextSupervisor]_vars

\* Every thread keeps running and a pending signal is delivered; nothing
\* obliges a child to exit or the program to start another one.
SupervisorFairness ==
    /\ \A p \in Procs : WF_vars(AddPid(p))
    /\ WF_vars(ProcessSignalHandler)
    /\ WF_vars(SupRead)
    /\ WF_vars(SupWaitpid)
    /\ WF_vars(SupWalkEnd)
    /\ WF_vars(SupFinish)
SpecSupervisorFair == Init /\ [][NextSupervisor]_vars /\ SupervisorFairness

\* ------------------------------------------------------------------------
\* Properties of the Connection framer
\* ------------------------------------------------------------------------

\* Offset in the stream at which frame k ends (4 header bytes + payload each).
RECURSIVE FrameEnd(_)
FrameEnd(k) ==
    IF k = 0 THEN 0 ELSE FrameEnd(k - 1) + 4 + Len(frames[k].payload)

\* Frame k is complete and all its bytes have reached the receiver.
Arrived(k) == frames[k].complete /\ FrameEnd(k) <= received

ArrivedFrames == {k \in DOMAIN frames : Arrived(k)}

WellFormed(payload) == Len(payload) >= 1 /\ payload[1] \in RegisteredIds

DeliveriesAt(off) == {j \in DOMAIN delivered : delivered[j].at = off}

\* The delivery a well-formed payload calls for.
IsDeliveryOf(d, payload) ==
    IF payload[1] = FinishId
    THEN d.kind = "Finished"
    ELSE /\ d.kind = "NewMessage"
         /\ d.msg = [id |-> payload[1], body |-> Tail(payload)]

\* The role every byte of the stream has by the framing: H for the four
\* bytes of a length header, B for a payload byte.
RECURSIVE TrueRoles(_)
TrueRoles(k) ==
    IF k = 0 THEN <<>>
    ELSE TrueRoles(k - 1) \o Roles("H", 4) \o Roles("B", Len(frames[k].payload))

\* C1: when every frame put on the stream is well formed, then however the
\* stream was split across onDataAvailable calls the deliveries so far are
\* exactly one per frame that has completely arrived, in stream order,
\* Finished for the Finish id and NewMessage (with that id and body)
\* otherwise; a frame whose bytes have not all arrived has delivered nothing.
C1_OneEventPerFrame ==
    (\A k \in DOMAIN frames : WellFormed(frames[k].payload)) =>
        /\ Len(delivered) = Cardinality(ArrivedFrames)
        /\ \A k \in ArrivedFrames :
               /\ k <= Len(delivered)
               /\ delivered[k].at = FrameEnd(k)
               /\ IsDeliveryOf(delivered[k], frames[k].payload)

\* Two well-formed frames: the first (a message) has been delivered, the
\* second (a Finish) has its header consumed and part of its body waiting in
\* a buffer.
C1_Witness ==
    /\ Len(frames) = 2
    /\ \A k \in DOMAIN frames : WellFormed(frames[k].payload)
    /\ frames[2].payload[1] = FinishId
    /\ Len(frames[2].payload) = 2
    /\ Len(delivered) = 1
    /\ delivered[1].kind = "NewMessage"
    /\ mPendingRead = 2
    /\ bufferSize(mBuffers) = 1

\* C2 as stated: every (id, body) that sendData sent and that has arrived
\* produced exactly one delivery carrying that id and that body.
C2_RoundTripAnyId ==
    \A k \in ArrivedFrames :
        frames[k].sent =>
            /\ Cardinality(DeliveriesAt(FrameEnd(k))) = 1
            /\ \A j \in DeliveriesAt(FrameEnd(k)) :
                   delivered[j].msg = [id |-> frames[k].payload[1],
                                       body |-> Tail(frames[k].payload)]

\* C2, amended: for every sendData(i, b) that returned true, the bytes put on
\* the stream are the little-endian u32 1 + |b|, the byte i and the bytes b;
\* once they have arrived, and i is a registered id, the receiver has made
\* exactly one delivery for them: NewMessage carrying id i and body b, or,
\* when i is the Finish id, Finished (which carries no message).
C2_RoundTrip ==
    \A k \in DOMAIN frames :
        (frames[k].sent /\ frames[k].complete) =>
            /\ FrameEnd(k) <= Len(stream)
            /\ SubSeq(stream, FrameEnd(k - 1) + 1, FrameEnd(k))
                   = U32LE(Len(frames[k].payload)) \o frames[k].payload
            /\ (Arrived(k) /\ WellFormed(frames[k].payload)) =>
                   /\ Cardinality(DeliveriesAt(FrameEnd(k))) = 1
                   /\ \A j \in DeliveriesAt(FrameEnd(k)) :
                          IsDeliveryOf(delivered[j], frames[k].payload)

\* sendData(ResponseId, <<2, 1>>) was the second send, and its message has
\* been delivered.
C2_Witness ==
    /\ Len(frames) = 2
    /\ frames[2].sent
    /\ frames[2].payload = <<ResponseId, 2, 1>>
    /\ Arrived(2)
    /\ \E j \in DeliveriesAt(FrameEnd(2)) :
           delivered[j].msg = [id |-> ResponseId, body |-> <<2, 1>>]

\* C3: the bytes consumed so far were each consumed once, in stream order,
\* the header bytes of each frame as header and its payload bytes as body;
\* between calls the decoder stands either at a frame boundary with
\* mPendingRead = 0, or just behind the 4 header bytes of the one frame in
\* progress with mPendingRead equal to that frame's non-zero length.
C3_OneFrameInProgress ==
    LET c == Len(consumed)
        roles == TrueRoles(Len(frames))
    IN  /\ c <= Len(roles)
        /\ \A i \in 1..c : consumed[i] = roles[i]
        /\ c + bufferSize(mBuffers) = received
        /\ mPendingRead # 0 =>
               \E k \in DOMAIN frames :
                   /\ c = FrameEnd(k - 1) + 4
                   /\ mPendingRead = Len(frames[k].payload)
        /\ mPendingRead = 0 =>
               \E k \in 0..Len(frames) : c = FrameEnd(k)

\* The second frame is in progress: its header has been consumed, its body
\* has not all arrived, and the first frame has been consumed in full.
C3_Witness ==
    /\ Len(frames) = 2
    /\ Len(frames[1].payload) = 2
    /\ Len(consumed) = FrameEnd(1) + 4
    /\ mPendingRead = 2
    /\ bufferSize(mBuffers) = 1

\* C7: a frame that has completely arrived and whose payload is empty or
\* starts with an unregistered id has been consumed in full and has delivered
\* nothing, and every well-formed frame that has arrived, before or after
\* it, has delivered exactly its one event; with no later byte consumed the
\* decoder awaits a header with mPendingRead = 0.
C7_UndecodableDiscarded ==
    \A k \in ArrivedFrames :
        /\ Len(consumed) >= FrameEnd(k)
        /\ Len(consumed) = FrameEnd(k) => mPendingRead = 0
        /\ ~WellFormed(frames[k].payload) => DeliveriesAt(FrameEnd(k)) = {}
        /\ WellFormed(frames[k].payload) =>
               /\ Cardinality(DeliveriesAt(FrameEnd(k))) = 1
               /\ \A j \in DeliveriesAt(FrameEnd(k)) :
                      IsDeliveryOf(delivered[j], frames[k].payload)

\* An empty-payload frame was followed by a well-formed one, and the only
\* delivery is that of the second frame.
C7_Witness ==
    /\ Len(frames) = 2
    /\ frames[1].payload = <<>>
    /\ WellFormed(frames[2].payload)
    /\ Arrived(2)
    /\ Len(delivered) = 1
    /\ delivered[1].at = FrameEnd(2)

\* C7, second case: an unregistered id.
C7_WitnessBadId ==
    /\ Len(frames) = 2
    /\ frames[1].payload = <<0, 1>>
    /\ WellFormed(frames[2].payload)
    /\ Arrived(2)
    /\ Len(delivered) = 1

\* C4 as stated: mPendingWrite is the number of bytes the socket accepted
\* from sendData minus the number it has acknowledged, and is not negative.
C4_PendingWriteIsUnacked ==
    /\ mPendingWrite = Len(stream) - flushed
    /\ mPendingWrite >= 0

\* What does hold of mPendingWrite: it is never negative and never below
\* the number of unacknowledged bytes.
PendingWriteCoversUnacked ==
    /\ mPendingWrite >= Len(stream) - flushed
    /\ Len(stream) - flushed >= 0

\* C5: every mSendFinished emission happened with no accepted byte
\* unacknowledged and not between the header and the body of a message;
\* once a send has passed the isConnected test, mPendingWrite is zero
\* exactly if mSendFinished has fired since the last such send.
C5_EmissionsAtZero ==
    /\ \A i \in DOMAIN sendFinished :
           sendFinished[i].unacked = 0 /\ ~sendFinished[i].bodyPending
    /\ firedForLast = "none" => mPendingWrite = 0 /\ sendFinished = <<>>
    /\ firedForLast # "none" => (mPendingWrite = 0 <=> firedForLast = "yes")

\* C5, the steps: mSendFinished is emitted in a step exactly if that step
\* acknowledged bytes and left mPendingWrite at zero, and then once.
C5_EmittedExactlyAtZero ==
    [][ /\ Len(sendFinished') # Len(sendFinished) <=>
               (flushed' > flushed /\ mPendingWrite' = 0)
        /\ Len(sendFinished') \in {Len(sendFinished), Len(sendFinished) + 1}
      ]_vars

C5_SendFinished == []C5_EmissionsAtZero /\ C5_EmittedExactlyAtZero

\* Two sends, the second acknowledged byte by byte after the first had
\* finished: mSendFinished has fired twice and nothing is pending.
C5_Witness ==
    /\ Len(sendFinished) = 2
    /\ Len(frames) = 2
    /\ mPendingWrite = 0
    /\ flushed = Len(stream)
    /\ firedForLast = "yes"

\* C6: a sendData call made while the socket was not connected returned
\* false, handed no byte to the socket and did not raise mPendingWrite.
C6_NotConnectedSendFails ==
    (lastSend.called /\ ~lastSend.wasConnected) =>
        /\ ~lastSend.ret
        /\ lastSend.queued = 0
        /\ lastSend.raised = 0

\* sendData was called after the peer hung up, with bytes of an earlier
\* send still unacknowledged.
C6_Witness ==
    /\ lastSend.called
    /\ ~lastSend.wasConnected
    /\ sockState = "closed"
    /\ mPendingWrite > 0
    /\ Len(frames) = 1

\* ------------------------------------------------------------------------
\* Properties of the Process supervisor
\* ------------------------------------------------------------------------

\* C8 as stated: whenever the child a Process forked has exited, that child
\* is eventually reaped and finish is called on the Process (which resets
\* its mPid), whatever the interleaving of fork, addPid, exit, SIGCHLD and
\* the supervisor's walk.
C8_ExitedChildIsFinished ==
    \A p \in Procs :
        (mPid[p] # NoPid /\ child[mPid[p]] = "zombie") ~> (mPid[p] = NoPid)

\* C9: every finish(code) call so far got the exit status n of a child that
\* exited normally with n, and -1 for a child that did not exit normally;
\* mReturn of a Process is the code of its latest finish call.
C9_ReturnCode ==
    /\ \A i \in DOMAIN finishLog :
           IF finishLog[i].how.kind = "exit"
           THEN finishLog[i].code = finishLog[i].how.n
           ELSE finishLog[i].code = -1
    /\ \A p \in Procs :
           LET mine == {i \in DOMAIN finishLog : finishLog[i].process = p}
           IN  mine # {} =>
                   mReturn[p] = finishLog[CHOOSE i \in mine : \A j \in mine : j <= i].code

\* One child was killed by a signal and finished with -1, another exited
\* with 255 and finished with 255.
C9_Witness ==
    /\ \E i \in DOMAIN finishLog :
           finishLog[i].how.kind = "signal" /\ finishLog[i].code = -1
    /\ \E i \in DOMAIN finishLog :
           /\ finishLog[i].how = [kind |-> "exit", n |-> 255]
           /\ finishLog[i].code = 255
           /\ mReturn[finishLog[i].process] = 255

\* C10 as stated: the pids in the registry are exactly the pids of the
\* children that have been forked and not yet reaped.
C10_RegistryIsLiveChildren ==
    Keys(sProcesses) = {pid \in Pids : child[pid] # "none"}

\* What does hold of the registry: every entry is that of an unreaped child
\* and names the Process that forked it; an entry disappears only in the
\* waitpid step that reaps its child.
RegistryEntriesAreLive ==
    \A pid \in Keys(sProcesses) :
        child[pid] # "none" /\ mPid[sProcesses[pid]] = pid

RegistryErasedOnlyByWaitpid ==
    [][\A pid \in Pids :
          (sProcesses[pid] # NoProcess /\ sProcesses'[pid] = NoProcess) =>
              (child[pid] = "zombie" /\ child'[pid] = "none" /\ sup.proc = pid)]_vars

\* ------------------------------------------------------------------------
\* Specifications of the single Process
\* ------------------------------------------------------------------------
\* The stdin path over the lives of a Process.
NextStdin ==
    \/ Start
    \/ Write
    \/ StdinWritable
    \/ ChildReadsStdin
    \/ ChildEnds
    \/ SupervisorFinish
SpecStdin == Init /\ [][NextStdin]_vars

\* ------------------------------------------------------------------------
\* Properties of the single Process
\* ------------------------------------------------------------------------
IsPrefix(a, b) == Len(a) <= Len(b) /\ SubSeq(b, 1, Len(a)) = a

C12_CursorInsideFront ==
    (io.mStdInBuffer # <<>>) => (io.mStdInIndex < Len(Head(io.mStdInBuffer)))

\* C13: the bytes written to the stdin descriptor are a prefix of the bytes
\* that write() queued for it, in call order.
C13_StdinIsPrefix ==
    (io.mStdIn1 # NoFd) => IsPrefix(io.stdinPipe, io.accepted)

\* C14: once write() or the stdin callback has returned, the stdin
\* descriptor is registered with the loop exactly when the queue is not empty.
C14_RegisteredIffQueued ==
    (io.mStdIn1 # NoFd) =>
        ((io.mStdIn1 \in io.registered) <=> (io.mStdInBuffer # <<>>))

\* A blocked write registered interest, and a later callback emptied the
\* queue and dropped it.
C14_WitnessBlocked ==
    /\ io.mStdInBuffer # <<>>
    /\ io.mStdIn1 \in io.registered
    /\ io.lastWrite = "blocked"

C14_Witness ==
    /\ io.mStdInBuffer = <<>>
    /\ io.mStdIn1 # NoFd
    /\ io.mStdIn1 \notin io.registered
    /\ io.lastWrite = "empty"
    /\ Len(io.stdinPipe) > StdinCap

\* A Process whose start() has just succeeded.
InitStarted ==
    /\ InitConn
    /\ InitProc
    /\ InitLoop
    /\ io = startInternal([InitRecord EXCEPT !.mMode = "Async", !.starts = 1], "ok", 0)

\* The output path of an asynchronous Process, one thread at a time in
\* handleOutput.
NextOutput ==
    \/ ChildWrites
    \/ OutputReadable
    \/ Consume
    \/ ReadAll
    \/ ChildEnds
    \/ SupervisorFinish
SpecOutput == InitStarted /\ [][NextOutput]_vars

Unread(s) == Mid(io[Buffer(s)], io[Index(s)])

Last(q, n) == SubSeq(q, Len(q) - n + 1, Len(q))

\* C15: neither the stdout buffer nor the stderr buffer is ever larger than
\* MaxSize.
C15_BufferWithinCap ==
    \A s \in Streams : Len(io[Buffer(s)]) <= MaxSize

\* A buffer is full to the cap after an append that had to make room.
C15_Witness ==
    \E s \in Streams :
        /\ Len(io[Buffer(s)]) = MaxSize
        /\ io.lastAppend # "plain"
        /\ Len(io.taken[s]) > MaxSize

\* C16: the unread bytes of a buffer are always the latest bytes read from
\* the pipe, every byte read is consumed, unread or dropped, and bytes are
\* dropped only when the unread bytes and the new chunk exceed MaxSize
\* together: compaction loses nothing that is unread.
C16_CompactionKeepsUnread ==
    /\ \A s \in Streams :
           /\ Len(Unread(s)) <= Len(io.taken[s])
           /\ Unread(s) = Last(io.taken[s], Len(Unread(s)))
           /\ Len(io.taken[s]) = io.used[s] + Len(io.lost[s]) + Len(Unread(s))
    /\ \A i \in DOMAIN io.drops : io.drops[i].unread + io.drops[i].chunk > MaxSize

\* A compaction has happened that kept unread bytes in front of the chunk.
C16_Witness ==
    \E s \in Streams :
        /\ io.lastAppend = "compact"
        /\ io.used[s] > 0
        /\ Len(io[Buffer(s)]) > BufSize
        /\ io.lost[s] = <<>>

\* Unread bytes were dropped.
C16_WitnessDrop ==
    io.drops # <<>>

\* An asynchronous Process with the loop thread and the supervisor thread
\* both able to be inside handleOutput.
NextAsync ==
    \/ ChildWrites
    \/ LoopRead
    \/ LoopAppend
    \/ ChildEnds
    \/ SupervisorFinish
SpecAsync == InitStarted /\ [][NextAsync]_vars

\* Synchronous exec against the clock.
NextExec ==
    \/ Exec
    \/ Tick
    \/ ChildWrites
    \/ ChildEnds
    \/ ExecSelect
    \/ ExecDoorbell
    \/ SupervisorRing
    \/ SupervisorClose
SpecExec == Init /\ [][NextExec]_vars

\* C17: while exec with a timeout waits in select, no more than the timeout
\* has passed since the wait began.
C17_NoWaitPastDeadline ==
    (io.execPc = "select" /\ io.timeout > 0) => (io.clock - io.started <= io.timeout)

\* C18: when a synchronous exec has returned Done, the child is reaped,
\* finish is complete (mPid == -1, the return code recorded, the write end of
\* the sync pipe closed), the output pipes are drained and closed, and both
\* assertions at the doorbell held.
C18_DoneMeansFinished ==
    (io.mMode = "Sync" /\ io.execResult = "Done") =>
        /\ io.childState = "none"
        /\ io.mPid = NoPid
        /\ io.mReturn = ReturnCode(io.wstatus)
        /\ io.mSync1 = NoFd
        /\ io.asserted = "held"
        /\ io.outPipe = <<>> /\ io.errPipe = <<>>
        /\ io.mStdOut0 = NoFd /\ io.mStdErr0 = NoFd

\* exec returned Done for a child that wrote output and was killed by a
\* signal.
C18_Witness ==
    /\ io.mMode = "Sync"
    /\ io.execResult = "Done"
    /\ io.mReturn = 0 - 1
    /\ io.taken["out"] # <<>>

\* C19: once the finished signal has been emitted, every byte the child
\* wrote is in a buffer (or was consumed or dropped at the cap): none is
\* left in a pipe or in the hands of a thread that has read it.
C19_FinishedSeesAllOutput ==
    (\E e \in io.emitted : e.signal = "finished") =>
        /\ io.outPipe = <<>> /\ io.errPipe = <<>>
        /\ io.loopPc # "append"

\* C20: every emission of readyReadStdOut, readyReadStdErr and finished is
\* made by the loop thread.
C20_CallbacksOnLoopThread ==
    \A e \in io.emitted : e.thread = "loop"

\* ------------------------------------------------------------------------
\* The threads of a Process and its mutex
\* ------------------------------------------------------------------------
\* An asynchronous Process: the loop thread inside handleOutput and the
\* supervisor thread inside finish, each one critical section at a time.
NextRace ==
    \/ ChildWrites
    \/ LoopRead
    \/ LoopAppend
    \/ ChildEnds
    \/ FinishEnter
    \/ FinishDrain
    \/ FinishEmit
SpecRace == InitStarted /\ [][NextRace]_vars

\* C21 as stated: a thread that is reading or writing the members of the
\* Process (the loop thread inside handleOutput, the supervisor thread inside
\* the block of finish) holds mMutex, so the two are never there together.
C21_StateUnderMutex ==
    /\ io.finPc = "locked" => io.mMutex = "supervisor"
    /\ io.loopPc # "idle" => io.mMutex = "loop"
    /\ ~(io.loopPc # "idle" /\ io.finPc = "locked")

\* The half of C21 that holds: the registry is locked for the whole walk, and
\* addPid waits for the lock.
RegistryUnderMutex ==
    (sup.pc = "walk") <=> (sProcessMutex = "supervisor")

\* finish in both modes, with exec's select loop for the Sync mode.
NextFinish ==
    \/ Start
    \/ Exec
    \/ ChildWrites
    \/ ChildEnds
    \/ FinishEnter
    \/ FinishDrain
    \/ FinishEmit
    \/ ExecSelect
    \/ ExecDoorbell
    \/ SupervisorRing
    \/ SupervisorClose
SpecFinish == Init /\ [][NextFinish]_vars

\* The finished signal as finish emits it, on the supervisor thread.
FinishedBySupervisor == [signal |-> "finished", thread |-> "supervisor"]

\* Inside the locked block of finish the mutex is held, mPid is cleared and
\* the return code recorded.
C25_InsideTheBlock ==
    io.finPc = "locked" =>
        /\ io.mMutex = "supervisor"
        /\ io.mPid = NoPid
        /\ io.mReturn = ReturnCode(io.wstatus)

\* What each step of finish does, and under which lock.
C25_StepsOfFinish ==
    \* clearing mPid and recording the code happen with mMutex taken
    /\ (io.mPid # NoPid /\ io'.mPid = NoPid) =>
           /\ io'.mMutex = "supervisor"
           /\ io'.mReturn = ReturnCode(io.wstatus)
    \* Async: the descriptors are closed under mMutex, the pipes drained
    /\ (io.mMode = "Async" /\ io.mStdOut0 # NoFd /\ io'.mStdOut0 = NoFd) =>
           /\ io.mMutex = "supervisor"
           /\ io'.outPipe = <<>> /\ io'.errPipe = <<>>
           /\ io'.mStdErr0 = NoFd /\ io'.mStdIn1 = NoFd
           /\ FinishedBySupervisor \in io'.emitted => FinishedBySupervisor \in io.emitted
    \* Async: finished is emitted after the mutex is released
    /\ (FinishedBySupervisor \in io'.emitted /\ FinishedBySupervisor \notin io.emitted) =>
           /\ io.mMode = "Async"
           /\ io.finPc = "emit"
           /\ io.mMutex = "free"
           /\ io.mPid = NoPid
    \* Sync: one doorbell byte under mMutex, and no signal
    /\ (io'.syncPipe # io.syncPipe /\ io'.syncPipe # <<>>) =>
           /\ io.mMode = "Sync"
           /\ io'.syncPipe = Append(io.syncPipe, "q")
           /\ io'.mMutex = "supervisor"
           /\ io'.mPid = NoPid
           /\ io'.emitted = io.emitted
    /\ (io.mMode = "Sync" /\ io'.mMode = "Sync") =>
           (FinishedBySupervisor \in io'.emitted => FinishedBySupervisor \in io.emitted)

\* C25: finish clears mPid, records the return code and drains and closes
\* the pipes (Async) or writes one doorbell byte (Sync) while it holds mMutex;
\* in Async mode finished is emitted once the mutex is released, and in Sync
\* mode finish emits nothing.
C25_FinishUnderMutex ==
    []C25_InsideTheBlock /\ [][C25_StepsOfFinish]_vars

\* An asynchronous finish has drained output and emitted finished; before it,
\* a synchronous one rang the doorbell.
C25_Witness ==
    /\ FinishedBySupervisor \in io.emitted
    /\ io.finPc = "idle"
    /\ io.mMode = "Async"
    /\ io.mReturn = 0 - 1
    /\ io.taken["out"] # <<>>
    /\ io.starts = 2

\* ------------------------------------------------------------------------
\* Properties of stop, the signal handler and shutdown
\* ------------------------------------------------------------------------
\* The supervisor with threads that call stop().
NextStop ==
    \/ \E p \in Procs : Fork(p)
    \/ \E p \in Procs : AddPid(p)
    \/ \E pid \in Pids : ChildExit(pid)
    \/ ProcessSignalHandler
    \/ SupRead
    \/ SupWaitpid
    \/ SupWalkEnd
    \/ SupFinish
    \/ \E p \in Procs : StopTest(p)
    \/ \E p \in Procs : StopKill(p)
SpecStop == Init /\ [][NextStop]_vars

\* C22 as stated: the SIGTERM of stop() never goes to a pid whose child has
\* already been reaped, nor to pid -1.
C22_StopSignalsLiveChild ==
    lastKill.target \notin {"reaped", "everyone"}

\* ------------------------------------------------------------------------
\* Properties of the spawn
\* ------------------------------------------------------------------------
\* Spawns by name, in both modes, and the lives of the children.
NextSpawn ==
    \/ StartCommand
    \/ ExecCommand
    \/ ChildEnds
    \/ SupervisorFinish
    \/ ExecSelect
    \/ ExecDoorbell
    \/ SupervisorRing
    \/ SupervisorClose
SpecSpawn == Init /\ [][NextSpawn]_vars

\* The cases in which a command has no resolution: it is empty, or it is
\* relative and PATH is unset or holds no directory with a readable and
\* executable file of that name.
Unresolvable(command, path, fs) ==
    \/ command = <<>>
    \/ /\ command[1] # "/"
       /\ \/ ~path.set
          \/ \A i \in 1..Len(path.dirs) : (<<path.dirs[i]>> \o command) \notin fs.exec

\* A step in which a spawn has failed with "Command not found".
NotFoundStep ==
    /\ io'.starts = io.starts + 1
    /\ io'.mErrorString = "Command not found"

\* The last spawn failed with "Command not found" exactly when its command
\* was unresolvable, and then no child exists.
C23_NotFoundIffUnresolvable ==
    io.starts > 0 =>
        /\ (io.mErrorString = "Command not found") <=>
               Unresolvable(io.lookup.command, io.lookup.path, io.lookup.files)
        /\ (io.mErrorString = "Command not found") =>
               /\ io.mPid = NoPid
               /\ io.childState = "none"
               /\ io.execResult = "Error"

\* C23 as stated: a spawn that fails with "Command not found" leaves every
\* member of the Process but the error as it was.
C23_NotFoundChangesNothing ==
    [][NotFoundStep =>
          io' = [io EXCEPT !.mErrorString = "Command not found",
                           !.execResult = "Error",
                           !.starts = @ + 1,
                           !.asserted = io'.asserted,
                           !.lookup = io'.lookup]]_vars

\* A spawn that fails with "Command not found" creates no pipe, forks no
\* child and leaves every member of the Process as it was, but for the error
\* string and for the mode, which start() and exec() set before the lookup.
C23_NotFoundChangesOnlyMode ==
    [][NotFoundStep =>
          io' = [io EXCEPT !.mErrorString = "Command not found",
                           !.mMode = io'.mMode,
                           !.execResult = "Error",
                           !.starts = @ + 1,
                           !.asserted = io'.asserted,
                           !.lookup = io'.lookup]]_vars

\* C23, amended: an unresolvable command, and only that, fails the spawn with
\* "Command not found", before any pipe or fork; pid stays -1 and nothing
\* of the Process changes but the error string and the mode.
C23_NotFound ==
    []C23_NotFoundIffUnresolvable /\ C23_NotFoundChangesOnlyMode

\* After a finished first life, a relative command that exists in a PATH
\* directory without being executable was not found, and the members the
\* first life left are still there.
C23_Witness ==
    /\ io.starts = 2
    /\ io.mErrorString = "Command not found"
    /\ io.lookup.command = <<"x">>
    /\ io.lookup.path = [set |-> TRUE, dirs |-> <<"d1", "d2">>]
    /\ io.lookup.files.exists = Files
    /\ io.lookup.files.exec = {}
    /\ io.mPid = NoPid
    /\ io.openFds = {}
    /\ io.mReturn = 1

\* ------------------------------------------------------------------------
\* Properties of the posted events
\* ------------------------------------------------------------------------
\* Threads that post and the loop thread that drains.
NextLoop ==
    \/ \E t \in Threads : Post(t)
    \/ DrainBegin
    \/ ExecEvent
SpecLoop == Init /\ [][NextLoop]_vars

\* The loop keeps iterating.
SpecLoopFair == SpecLoop /\ WF_vars(DrainBegin) /\ WF_vars(ExecEvent)

\* The events a thread posted, among those executed so far, in the order of
\* their execution.
ExecutedOf(t) == SelectSeq(executed, LAMBDA x : x.event.by = t)

\* What has been executed is a prefix of what has been enqueued, run by the
\* loop thread: no event twice, none overtaken, and those of one thread in
\* the order that thread posted them.
C24_ExecutedInOrder ==
    /\ Len(executed) <= Len(enqueued)
    /\ \A i \in DOMAIN executed :
           /\ executed[i].event = enqueued[i]
           /\ executed[i].thread = LoopThread
    /\ \A t \in Threads :
           \A k \in DOMAIN ExecutedOf(t) : ExecutedOf(t)[k].event.n = k

\* C24: every posted event is executed exactly once, on the loop thread, in
\* the order of the appends, hence in each thread's program order, however
\* the posting threads interleave.
C24_PostedEventsRunOnceInOrder ==
    /\ []C24_ExecutedInOrder
    /\ []<>(Len(executed) = Len(enqueued))

\* Two threads posted alternately while a drain was under way, and all their
\* events have run.
C24_Witness ==
    /\ Len(executed) = 4
    /\ executed = [i \in 1..4 |-> [event |-> enqueued[i], thread |-> LoopThread]]
    /\ enqueued[1].by = "t1" /\ enqueued[2].by = "t2"
    /\ enqueued[3].by = "t1" /\ enqueued[4].by = "loop"
    /\ events = <<>> /\ draining = <<>>

\* ------------------------------------------------------------------------
\* Properties of the supervisor's walk
\* ------------------------------------------------------------------------
\* While finish runs the registry is unlocked, and the Process being
\* finished has no entry left under the pid that was reaped.
C26_FinishOutsideTheLock ==
    sup.pc = "finish" =>
        /\ sProcessMutex = "free"
        /\ sup.process # NoProcess
        /\ mPid[sup.process] \in sup.erased
        /\ sProcesses[mPid[sup.process]] # sup.process

\* The iterator of the walk stays on an entry of the registry that the walk
\* has not visited, beyond every entry it has; at the end of the walk every
\* entry the walk began with has been visited.
C26_WalkIsWhole ==
    sup.pc \in {"walk", "finish"} =>
        /\ sup.erased \subseteq sup.walked
        /\ sup.proc # End =>
               /\ sup.proc \in Keys(sProcesses)
               /\ sup.proc \in sup.atStart \ sup.walked
               /\ \A pid \in sup.walked : pid < sup.proc
               /\ \A pid \in sup.atStart \ sup.walked : sup.proc <= pid
        /\ sup.proc = End => sup.atStart \subseteq sup.walked

\* The steps around finish: the reap erases the entry and unlocks, finish
\* locks again and leaves the iterator and the registry as they are.
C26_StepsAroundFinish ==
    /\ (sup.pc = "walk" /\ sup'.pc = "finish") =>
           /\ sProcessMutex = "supervisor" /\ sProcessMutex' = "free"
           /\ sProcesses[sup.proc] = sup'.process
           /\ sProcesses' = [sProcesses EXCEPT ![sup.proc] = NoProcess]
    /\ (sup.pc = "finish" /\ sup'.pc # "finish") =>
           /\ sup'.pc = "walk"
           /\ sProcessMutex' = "supervisor"
           /\ sup'.proc = sup.proc
           /\ sProcesses' = sProcesses
           /\ Len(finishLog') = Len(finishLog) + 1

\* C26: the supervisor does not hold the registry mutex while finish runs: it
\* erases the entry, unlocks, calls finish, locks again and goes on with the
\* entries that remain; an entry added meanwhile neither corrupts the walk
\* nor cuts it short.
C26_WalkAroundFinish ==
    /\ [](C26_FinishOutsideTheLock /\ C26_WalkIsWhole)
    /\ [][C26_StepsAroundFinish]_vars

\* The walk began with pid 2 alone and reaped it; during finish another thread
\* registered pid 1, and the walk has gone on to its end.
C26_Witness ==
    /\ sup.pc = "walk"
    /\ sup.proc = End
    /\ sup.atStart = {2}
    /\ sup.erased = {2}
    /\ sProcesses[1] # NoProcess
    /\ Len(finishLog) = 1

\* The spawns that have not been finished yet.
Unfinished == {p \in Procs : mPid[p] # NoPid}

\* Every successful fork has either been answered by one finish call or is
\* still to be finished.
C30_OneFinishPerFork ==
    forks = Len(finishLog) + Cardinality(Unfinished)

\* A finish call is made on a Process that has a spawn to finish, and ends it.
C30_FinishEndsASpawn ==
    Len(finishLog') > Len(finishLog) =>
        /\ Len(finishLog') = Len(finishLog) + 1
        /\ LET p == finishLog'[Len(finishLog')].process
           IN mPid[p] # NoPid /\ mPid'[p] = NoPid

\* C30: finish is called at most once for each successful spawn, whatever
\* 'c' bytes arrive and however often the registry is walked.
C30_FinishAtMostOnce ==
    []C30_OneFinishPerFork /\ [][C30_FinishEndsASpawn]_vars

\* Two children were reaped and finished in one walk, and the 'c' of the
\* second exit is still waiting for a walk that will find nothing to reap.
C30_Witness ==
    /\ Len(finishLog) = 2
    /\ finishLog[1].process # finishLog[2].process
    /\ forks = 2
    /\ sProcessPipe = <<"c">>
    /\ sup.pc = "read"

\* ------------------------------------------------------------------------
\* Properties of the readyRead signals
\* ------------------------------------------------------------------------
\* A call of handleOutput made in the present state by the loop thread emits
\* the signal of its stream, and nothing else, when it reads at least one
\* byte, and emits nothing when it reads none.
C27_DrainSignalsIffRead ==
    \A s \in Streams :
        LET after == handleOutput([io EXCEPT !.emitted = {}], s, "loop")
        IN IF after.taken[s] # io.taken[s]
           THEN after.emitted = {[signal |-> ReadyRead(s), thread |-> "loop"]}
           ELSE after.emitted = {}

\* A step that reads from a stream is a step with the signal of that stream
\* emitted, and a step that emits it for the first time has read from it.
C27_ReadStepsSignal ==
    \A s \in Streams :
        /\ io'.taken[s] # io.taken[s] =>
               \E e \in io'.emitted : e.signal = ReadyRead(s)
        /\ (\E e \in io'.emitted \ io.emitted : e.signal = ReadyRead(s)) =>
               io'.taken[s] # io.taken[s]

\* C27: a read that returns at least one byte is followed by an emission of
\* readyReadStdOut / readyReadStdErr, and a drain that reads nothing emits no
\* signal.
C27_ReadyReadIffRead ==
    []C27_DrainSignalsIffRead /\ [][C27_ReadStepsSignal]_vars

\* The loop has drained three bytes of stdout in two reads and signalled, and
\* has drained stderr at end of file, reading nothing and signalling nothing.
C27_Witness ==
    /\ Len(io.taken["out"]) > BufSize
    /\ io.emitted = {[signal |-> "readyReadStdOut", thread |-> "loop"]}
    /\ io.taken["err"] = <<>>
    /\ io.mStdErr0 \in io.openFds
    /\ io.mStdErr0 \notin io.registered

\* ------------------------------------------------------------------------
\* Properties of the SIGCHLD handler
\* ------------------------------------------------------------------------
\* The supervisor with the handler's failed writes.
NextHandler ==
    \/ \E p \in Procs : Fork(p)
    \/ \E p \in Procs : AddPid(p)
    \/ \E pid \in Pids : ChildExit(pid)
    \/ \E pid \in Pids : ChildKilled(pid)
    \/ ProcessSignalHandler
    \/ ProcessSignalHandlerRetry
    \/ SupRead
    \/ SupWaitpid
    \/ SupWalkEnd
    \/ SupFinish
SpecHandler == Init /\ [][NextHandler]_vars

\* A step of the handler: the pending signal is consumed, or errno changes
\* (nothing else in the program sets it).
HandlerStep == sigPending /\ (~sigPending' \/ errno' # errno)

\* What the handler leaves alone in every case: the registry, the Processes
\* and the supervisor; and the pipe gets one 'c' or, on a failed write,
\* nothing yet.
HandlerFrame ==
    [][HandlerStep =>
          /\ sProcessPipe' \in {sProcessPipe, Append(sProcessPipe, "c")}
          /\ ~sigPending' => sProcessPipe' = Append(sProcessPipe, "c")
          /\ UNCHANGED << child, wstatus, how, sProcesses, sProcessMutex, sup, mPid,
                          mReturn, startPc, finishLog, forks, ioVars, connVars >>]_vars

\* C28 as stated: the handler appends one 'c' to the signal pipe and changes
\* nothing else.
C28_HandlerOnlyAppends ==
    [][HandlerStep =>
          /\ sProcessPipe' = Append(sProcessPipe, "c")
          /\ UNCHANGED << child, wstatus, how, sProcesses, sProcessMutex, sup, mPid,
                          mReturn, startPc, finishLog, forks, ioVars, connVars,
                          errno >>]_vars

\* ------------------------------------------------------------------------
\* Properties of shutdown
\* ------------------------------------------------------------------------
\* The supervisor while the program spawns children and then shuts down.
NextShutdown ==
    \/ \E p \in Procs : Fork(p)
    \/ \E p \in Procs : AddPid(p)
    \/ \E pid \in Pids : ChildExit(pid)
    \/ ProcessSignalHandler
    \/ SupRead
    \/ SupWaitpid
    \/ SupWalkEnd
    \/ SupFinish
    \/ ShutdownWakeup
    \/ ShutdownJoin
SpecShutdown == Init /\ [][NextShutdown]_vars

\* The supervisor thread and the thread in shutdown keep running.
ShutdownFairness ==
    /\ WF_vars(SupRead)
    /\ WF_vars(SupWaitpid)
    /\ WF_vars(SupWalkEnd)
    /\ WF_vars(SupFinish)
    /\ WF_vars(ShutdownJoin)
SpecShutdownFair == SpecShutdown /\ ShutdownFairness

\* After the 's' is written the join returns.
C29_JoinReturns == (shutdownPc = "join") ~> (shutdownPc = "done")

\* The join returns only once run has left its loop.
C29_JoinedMeansExited ==
    shutdownPc = "done" => (sup.pc = "done" /\ sProcessThread = "null")

\* run leaves its loop on an 's' at the head of the pipe, all that was
\* queued before it having been read; once it has left, no child is reaped,
\* nothing is erased from the registry and finish is not called.
C29_ExitOnStopOnly ==
    /\ (sup.pc # "done" /\ sup'.pc = "done") =>
           /\ sup.pc = "read"
           /\ sProcessPipe # <<>> /\ Head(sProcessPipe) = "s"
           /\ shutdownPc = "join"
    /\ sup.pc = "done" =>
           /\ sup' = sup
           /\ finishLog' = finishLog
           /\ \A p \in Procs : mPid'[p] # mPid[p] => mPid[p] = NoPid
           /\ \A pid \in Pids :
                  /\ child[pid] = "zombie" => child'[pid] = "zombie"
                  /\ sProcesses[pid] # NoProcess => sProcesses'[pid] # NoProcess

C31_BufferInChildOrder ==
    io.mMode = "Async" =>
        \A s \in Streams :
            \A i, j \in DOMAIN io[Buffer(s)] :
                i < j => io[Buffer(s)][i] < io[Buffer(s)][j]

\* C32: when fork fails, the spawn returns Error with mPid == -1 and leaves
\* the Process with no open descriptor from the attempt: the stdin, stdout
\* and stderr pipes and, in Sync mode, the sync pipe are closed and the
\* descriptor members are back to -1, so that nothing later closes or
\* writes a descriptor the Process no longer owns.
C32_ForkFailureLeavesNothing ==
    (io.execResult = "Error" /\ io.mErrorString = "Fork failed") =>
        /\ io.mPid = NoPid
        /\ io.openFds = {}
        /\ io.mStdIn1 = NoFd /\ io.mStdOut0 = NoFd /\ io.mStdErr0 = NoFd
        /\ io.mSync0 = NoFd /\ io.mSync1 = NoFd

\* ------------------------------------------------------------------------
\* Termination of the SIGCHLD handler
\* ------------------------------------------------------------------------
\* The supervisor with the handler running on the thread it interrupted; the
\* supervisor thread takes no step of run while it is inside the handler.
NextSignal ==
    \/ \E p \in Procs : Fork(p)
    \/ \E p \in Procs : AddPid(p)
    \/ \E pid \in Pids : ChildExit(pid)
    \/ \E pid \in Pids : ChildKilled(pid)
    \/ \E t \in SignalThreads : SignalDelivered(t)
    \/ HandlerWrite
    \/ HandlerRetry
    \/ SupervisorRuns /\ SupRead
    \/ SupervisorRuns /\ SupWaitpid
    \/ SupervisorRuns /\ SupWalkEnd
    \/ SupervisorRuns /\ SupFinish
SpecSignal == Init /\ [][NextSignal]_vars

\* Every thread keeps running: the interrupted thread runs the handler, the
\* supervisor thread runs run whenever it is not inside the handler.
SignalFairness ==
    /\ WF_vars(HandlerWrite)
    /\ WF_vars(HandlerRetry)
    /\ WF_vars(SupervisorRuns /\ SupRead)
    /\ WF_vars(SupervisorRuns /\ SupWaitpid)
    /\ WF_vars(SupervisorRuns /\ SupWalkEnd)
    /\ WF_vars(SupervisorRuns /\ SupFinish)
SpecSignalFair == SpecSignal /\ SignalFairness

\* A handler that interrupted another thread than the supervisor returns:
\* the supervisor reads the pipe and makes room.
HandlerOffSupervisorReturns == (inHandler = "main") ~> (inHandler = "none")

\* C33: the SIGCHLD handler always returns, whatever the fill level of the
\* signal pipe and whichever thread the signal is delivered on, the
\* supervisor thread included.
C33_HandlerReturns == (inHandler # "none") ~> (inHandler = "none")

====
